---- MODULE Spec2Model ----
(***************************************************************************)
(* Model of the session store (app/services/session_manager.py), the       *)
(* conversation state machine (app/services/state_machine.py) and the      *)
(* handlers that drive them (app/bot/handlers).                            *)
(*                                                                         *)
(* Time is an integer number of clock ticks.  A Python dict is a function  *)
(* whose DOMAIN is the set of keys present.  Python's None is the string   *)
(* "None".                                                                 *)
(***************************************************************************)
EXTENDS Integers, Sequences, FiniteSets, TLC

VARIABLES
    sessions,   \* SessionManager.sessions: user_id -> SessionData
    now,        \* the wall clock, datetime.now()
    last,       \* the most recent call: its name, user, argument and result
    calls,      \* number of calls made so far
    retired,    \* history: session_ids of the sessions removed from the store
    sm,         \* the most recent StateMachine query and its result
    db,         \* the database behind DataService: inspections and dialogues
    ex,         \* the execute_transition calls made: inputs, effects, results
    llm,        \* the most recent process_text call: completion and result
    inflight,   \* the handler calls suspended at an await
    voice_sessions  \* the sessions of the SessionManager voice_handlers builds

vars == <<sessions, now, last, calls, retired, sm, db, ex, llm, inflight,
          voice_sessions>>

----------------------------------------------------------------------------
(* Bounds of the model *)

\* the clock stops at MaxTime ticks
MaxTime == 3
\* SessionManager(timeout_minutes), in clock ticks
TimeoutTicks == 2
\* size of the space uuid4().hex[:8] draws from (16^8 in the program)
NumIds == 2
\* cap on the length of a session's message history
MaxMsgs == 2
\* cap on the number of calls made to the session store
MaxCalls == 3
\* cap on the number of events after which no new input arrives
MaxInputs == 2
\* cap on the number of flags set in a transition context
MaxFlags == 2

----------------------------------------------------------------------------
(* Input domains *)

Users == {"u1", "u2"}

SessionIds == 1..NumIds

Messages == {"m1", "m2"}

None == "None"

\* schemas.BotState
BotState == {"idle", "processing", "clarification", "confirmation",
             "cancellation", "reports_menu", "report_processing"}

\* schemas.OrderData values used as inputs
Order1 == [order_id |-> "10409", status |-> "rework", comment |-> "c"]
Order2 == [order_id |-> "10494", status |-> None, comment |-> None]

OrderLists == {<<>>, <<Order2, Order1>>}

PendingInputs == {"d1"}

----------------------------------------------------------------------------
(* datetime helpers *)

\* datetime.isoformat(): the string that carries the timestamp
isoformat(t) == [iso |-> t]

\* datetime.fromisoformat()
fromisoformat(s) == s.iso

\* self.timeout = timedelta(minutes=timeout_minutes)
timeout == TimeoutTicks

----------------------------------------------------------------------------
(* dict helpers *)

\* del d[k]
DictDel(d, k) == [x \in (DOMAIN d) \ {k} |-> d[x]]

\* d[k] = v
DictSet(d, k, v) == [x \in (DOMAIN d) \cup {k} |-> IF x = k THEN v ELSE d[x]]

Call(op, user, arg, ret) == [op |-> op, user |-> user, arg |-> arg, ret |-> ret]

----------------------------------------------------------------------------
(* SessionManager *)

\* a SessionData whose previous_state defaults to idle instead of None
NewSession_PrevIdle(session_id, user_id, current_time) ==
    [session_id       |-> session_id,
     user_id          |-> user_id,
     current_state    |-> "idle",
     previous_state   |-> "idle",
     messages         |-> <<>>,
     extracted_orders |-> <<>>,
     pending_data     |-> None,
     created_at       |-> current_time,
     last_activity    |-> current_time]

\* SessionData(...) built by get_or_create_session
NewSession(session_id, user_id, current_time) ==
    [session_id       |-> session_id,
     user_id          |-> user_id,
     current_state    |-> "idle",
     previous_state   |-> None,
     messages         |-> <<>>,
     extracted_orders |-> <<>>,
     pending_data     |-> None,
     created_at       |-> current_time,
     last_activity    |-> current_time]

\* the timeout test of get_or_create_session, read at clock value t
IsLive(session, t) == t - fromisoformat(session.last_activity) < timeout

\* the timeout test of cleanup_expired_sessions with > in place of >=
IsExpired_After(session, t) == t - fromisoformat(session.last_activity) > timeout

\* the timeout test of cleanup_expired_sessions
IsExpired(session, t) == t - fromisoformat(session.last_activity) >= timeout

\* get_or_create_session that returns a live session without touching it
GetOrCreateResult_NoRefresh(store, user_id, current_time, t2, new_id) ==
    IF user_id \in DOMAIN store /\ IsLive(store[user_id], t2)
    THEN [store |-> store, ret |-> store[user_id].session_id]
    ELSE [store |-> DictSet(store, user_id,
                            NewSession(new_id, user_id, isoformat(current_time))),
          ret   |-> new_id]

\* the session map after get_or_create_session(user_id): current_time is the
\* first clock read, t2 the second one, new_id the value uuid4 yields
GetOrCreateResult(store, user_id, current_time, t2, new_id) ==
    IF user_id \in DOMAIN store /\ IsLive(store[user_id], t2)
    THEN [store |-> [store EXCEPT ![user_id].last_activity = isoformat(current_time)],
          ret   |-> store[user_id].session_id]
    ELSE [store |-> DictSet(store, user_id,
                            NewSession(new_id, user_id, isoformat(current_time))),
          ret   |-> new_id]

\* session_ids of the sessions of store that store2 no longer holds
Discarded(store, store2) ==
    {store[u].session_id : u \in {x \in DOMAIN store : x \notin DOMAIN store2}}

\* add_message that puts the message at the head of the history
AddMessageResult_Prepends(store, user_id, message, t) ==
    IF user_id \notin DOMAIN store
    THEN [store |-> store, ret |-> FALSE]
    ELSE [store |-> [store EXCEPT
                       ![user_id].messages = <<message>> \o @,
                       ![user_id].last_activity = isoformat(t)],
          ret   |-> TRUE]

\* add_message(user_id, message) at clock value t
AddMessageResult(store, user_id, message, t) ==
    IF user_id \notin DOMAIN store
    THEN [store |-> store, ret |-> FALSE]
    ELSE [store |-> [store EXCEPT
                       ![user_id].messages = Append(@, message),
                       ![user_id].last_activity = isoformat(t)],
          ret   |-> TRUE]

\* get_session_history(user_id)
get_session_history(store, user_id) ==
    IF user_id \notin DOMAIN store THEN <<>> ELSE store[user_id].messages

\* set_extracted_orders that opens a session for a user who has none
SetExtractedOrdersResult_Creates(store, user_id, orders, t) ==
    IF user_id \notin DOMAIN store
    THEN [store |-> DictSet(store, user_id,
                            [NewSession(1, user_id, isoformat(t))
                                EXCEPT !.extracted_orders = orders]),
          ret   |-> TRUE]
    ELSE [store |-> [store EXCEPT
                       ![user_id].extracted_orders = orders,
                       ![user_id].last_activity = isoformat(t)],
          ret   |-> TRUE]

\* set_extracted_orders(user_id, orders) at clock value t
SetExtractedOrdersResult(store, user_id, orders, t) ==
    IF user_id \notin DOMAIN store
    THEN [store |-> store, ret |-> FALSE]
    ELSE [store |-> [store EXCEPT
                       ![user_id].extracted_orders = orders,
                       ![user_id].last_activity = isoformat(t)],
          ret   |-> TRUE]

\* get_extracted_orders that returns the list back to front
get_extracted_orders_Reversed(store, user_id) ==
    IF user_id \notin DOMAIN store THEN <<>>
    ELSE LET orders == store[user_id].extracted_orders
         IN  [i \in 1..Len(orders) |-> orders[Len(orders) + 1 - i]]

\* get_extracted_orders(user_id)
get_extracted_orders(store, user_id) ==
    IF user_id \notin DOMAIN store THEN <<>> ELSE store[user_id].extracted_orders

\* clear_session that empties the whole map
ClearSessionResult_All(store, user_id) ==
    IF user_id \in DOMAIN store
    THEN [store |-> << >>, ret |-> TRUE]
    ELSE [store |-> store, ret |-> FALSE]

\* clear_session(user_id)
ClearSessionResult(store, user_id) ==
    IF user_id \in DOMAIN store
    THEN [store |-> DictDel(store, user_id), ret |-> TRUE]
    ELSE [store |-> store, ret |-> FALSE]

\* expired_users computed from created_at instead of last_activity
ExpiredUsers_ByCreated(store, t) ==
    {u \in DOMAIN store : t - fromisoformat(store[u].created_at) >= timeout}

\* expired_users of cleanup_expired_sessions, read at clock value t
ExpiredUsers(store, t) == {u \in DOMAIN store : IsExpired(store[u], t)}

\* cleanup_expired_sessions() at clock value t
CleanupExpiredResult(store, t) ==
    LET expired_users == ExpiredUsers(store, t)
    IN  [store |-> [u \in (DOMAIN store) \ expired_users |-> store[u]],
         ret   |-> Cardinality(expired_users)]

\* get_session_info(user_id): the set holding the info dict, empty for None
get_session_info(store, user_id) ==
    IF user_id \notin DOMAIN store
    THEN {}
    ELSE LET session == store[user_id]
         IN  {[session_id       |-> session.session_id,
               user_id          |-> session.user_id,
               current_state    |-> session.current_state,
               previous_state   |-> session.previous_state,
               messages_count   |-> Len(session.messages),
               orders_count     |-> Len(session.extracted_orders),
               has_pending_data |-> session.pending_data # None,
               created_at       |-> session.created_at,
               last_activity    |-> session.last_activity]}

\* set_state that records previous_state only when the state changes
SetStateResult_SkipSame(store, user_id, new_state, t) ==
    IF user_id \notin DOMAIN store
    THEN [store |-> store, ret |-> FALSE]
    ELSE [store |-> [store EXCEPT
                       ![user_id].previous_state =
                           IF new_state = store[user_id].current_state
                           THEN @ ELSE store[user_id].current_state,
                       ![user_id].current_state = new_state,
                       ![user_id].last_activity = isoformat(t)],
          ret   |-> TRUE]

\* set_state(user_id, new_state) at clock value t
SetStateResult(store, user_id, new_state, t) ==
    IF user_id \notin DOMAIN store
    THEN [store |-> store, ret |-> FALSE]
    ELSE [store |-> [store EXCEPT
                       ![user_id].previous_state = store[user_id].current_state,
                       ![user_id].current_state = new_state,
                       ![user_id].last_activity = isoformat(t)],
          ret   |-> TRUE]

\* get_state(user_id)
get_state(store, user_id) ==
    IF user_id \notin DOMAIN store THEN None ELSE store[user_id].current_state

\* the allowed_transitions dict of SessionManager.can_transition_to
allowed_transitions ==
    [idle              |-> {"processing", "reports_menu"},
     processing        |-> {"clarification", "confirmation", "cancellation", "idle"},
     clarification     |-> {"processing", "cancellation"},
     confirmation      |-> {"idle", "cancellation"},
     cancellation      |-> {"idle"},
     reports_menu      |-> {"report_processing", "idle"},
     report_processing |-> {"reports_menu", "idle"}]

\* can_transition_to(user_id, target_state)
can_transition_to(store, user_id, target_state) ==
    LET current_state == get_state(store, user_id)
    IN  IF current_state = None
        THEN target_state = "idle"
        ELSE target_state \in allowed_transitions[current_state]

\* set_pending_data that stamps the session with its creation time
SetPendingDataResult_StampCreated(store, user_id, data, t) ==
    IF user_id \notin DOMAIN store
    THEN [store |-> store, ret |-> FALSE]
    ELSE [store |-> [store EXCEPT
                       ![user_id].pending_data = data,
                       ![user_id].last_activity = store[user_id].created_at],
          ret   |-> TRUE]

\* set_pending_data(user_id, data) at clock value t
SetPendingDataResult(store, user_id, data, t) ==
    IF user_id \notin DOMAIN store
    THEN [store |-> store, ret |-> FALSE]
    ELSE [store |-> [store EXCEPT
                       ![user_id].pending_data = data,
                       ![user_id].last_activity = isoformat(t)],
          ret   |-> TRUE]

\* get_pending_data(user_id)
get_pending_data(store, user_id) ==
    IF user_id \notin DOMAIN store THEN None ELSE store[user_id].pending_data

----------------------------------------------------------------------------
(* Actions of the session store: one per public method *)

\* a mutator call: the store becomes r.store, the call and its result are recorded
Apply(op, u, arg, r) ==
    /\ calls < MaxCalls
    /\ calls' = calls + 1
    /\ sessions' = r.store
    /\ last' = Call(op, u, arg, r.ret)
    /\ retired' = retired \cup Discarded(sessions, r.store)
    /\ UNCHANGED <<now, sm, db, ex, llm, inflight, voice_sessions>>

\* a getter call: nothing changes but the record of the call
Read(op, u, ret) ==
    /\ calls < MaxCalls
    /\ calls' = calls + 1
    /\ last' = Call(op, u, None, ret)
    /\ UNCHANGED <<sessions, now, retired, sm, db, ex, llm, inflight, voice_sessions>>

\* the second clock read of get_or_create_session happens only when the user
\* has a session; the clock may have advanced since the first read
GetOrCreateSession(u) ==
    \E d \in 0..1, new_id \in SessionIds :
        /\ now + d <= MaxTime
        /\ u \notin DOMAIN sessions => d = 0
        /\ calls < MaxCalls
        /\ calls' = calls + 1
        /\ LET r == GetOrCreateResult(sessions, u, now, now + d, new_id)
           IN  /\ sessions' = r.store
               /\ last' = Call("get_or_create_session", u, None, r.ret)
               /\ retired' = retired \cup
                     (IF u \in DOMAIN sessions /\ ~IsLive(sessions[u], now + d)
                      THEN {sessions[u].session_id} ELSE {})
        /\ now' = now + d
        /\ UNCHANGED <<sm, db, ex, llm, inflight, voice_sessions>>

AddMessage(u) ==
    \E m \in Messages :
        /\ u \in DOMAIN sessions => Len(sessions[u].messages) < MaxMsgs
        /\ Apply("add_message", u, m, AddMessageResult(sessions, u, m, now))

SetExtractedOrders(u) ==
    \E o \in OrderLists :
        Apply("set_extracted_orders", u, o, SetExtractedOrdersResult(sessions, u, o, now))

SetPendingData(u) ==
    \E d \in PendingInputs :
        Apply("set_pending_data", u, d, SetPendingDataResult(sessions, u, d, now))

SetState(u) ==
    \E s \in BotState :
        Apply("set_state", u, s, SetStateResult(sessions, u, s, now))

ClearSession(u) ==
    Apply("clear_session", u, None, ClearSessionResult(sessions, u))

CleanupExpiredSessions ==
    Apply("cleanup_expired_sessions", None, None, CleanupExpiredResult(sessions, now))

GetSessionHistory(u) == Read("get_session_history", u, get_session_history(sessions, u))

GetExtractedOrders(u) == Read("get_extracted_orders", u, get_extracted_orders(sessions, u))

GetSessionInfo(u) == Read("get_session_info", u, get_session_info(sessions, u))

GetState(u) == Read("get_state", u, get_state(sessions, u))

GetPendingData(u) == Read("get_pending_data", u, get_pending_data(sessions, u))

----------------------------------------------------------------------------
(* Handlers *)

\* cmd_start that drops every session before it opens the new one
CmdStartResult_DropsAll(store, user_id, t, new_id) ==
    GetOrCreateResult(<< >>, user_id, t, t, new_id)

\* cmd_start: clear_session then get_or_create_session
CmdStartResult(store, user_id, t, new_id) ==
    GetOrCreateResult(ClearSessionResult(store, user_id).store, user_id, t, t, new_id)

CmdStart(u) ==
    \E new_id \in SessionIds :
        /\ calls < MaxCalls
        /\ calls' = calls + 1
        /\ LET r == CmdStartResult(sessions, u, now, new_id)
           IN  /\ sessions' = r.store
               /\ last' = Call("cmd_start", u, None, r.ret)
        /\ retired' = retired \cup
              (IF u \in DOMAIN sessions THEN {sessions[u].session_id} ELSE {})
        /\ UNCHANGED <<now, sm, db, ex, llm, inflight, voice_sessions>>

\* handle_confirm_data: the orders read, and the store after the handler
HandleConfirmResult(store, user_id) ==
    LET orders == get_extracted_orders(store, user_id)
    IN  IF orders # <<>>
        THEN [store |-> ClearSessionResult(store, user_id).store,
              ret   |-> [reply |-> "confirmed", orders |-> orders]]
        ELSE [store |-> store,
              ret   |-> [reply |-> "no_data", orders |-> orders]]

HandleConfirmData(u) ==
    Apply("handle_confirm_data", u, None, HandleConfirmResult(sessions, u))

\* a handler that ends in one call of set_state(user_id, new_state)
SetStateHandler(handler, u, new_state) ==
    /\ calls < MaxCalls
    /\ calls' = calls + 1
    /\ LET r == SetStateResult(sessions, u, new_state, now)
       IN  /\ sessions' = r.store
           /\ last' = Call(handler, u, new_state, r.ret)
    /\ UNCHANGED <<now, retired, sm, db, ex, llm, inflight, voice_sessions>>

\* cmd_reports (and the reports button, which calls it): set_state to
\* reports_menu, whatever the state is
CmdReports(u) == SetStateHandler("cmd_reports", u, "reports_menu")

\* handle_exit_reports: set_state to idle
HandleExitReports(u) == SetStateHandler("handle_exit_reports", u, "idle")

\* handle_report_callbacks up to its first await: set_state to
\* report_processing, whatever the state is; the rest of the handler runs
\* after other handlers may have run
ReportSelected(u) ==
    /\ <<"handle_report_callbacks", u>> \notin inflight
    /\ calls < MaxCalls
    /\ calls' = calls + 1
    /\ LET r == SetStateResult(sessions, u, "report_processing", now)
       IN  /\ sessions' = r.store
           /\ last' = Call("handle_report_callbacks", u, "report_processing", r.ret)
    /\ inflight' = inflight \cup {<<"handle_report_callbacks", u>>}
    /\ UNCHANGED <<now, retired, sm, db, ex, llm, voice_sessions>>

\* the rest of handle_report_callbacks: after the report is sent, and in the
\* except branch after the error message is sent, set_state to idle; when a
\* send outside the try block or inside the except branch raises, the
\* handler ends without it
ReportFinished(u) ==
    /\ <<"handle_report_callbacks", u>> \in inflight
    /\ inflight' = inflight \ {<<"handle_report_callbacks", u>>}
    /\ \E aborted \in BOOLEAN :
          LET r == IF aborted
                   THEN [store |-> sessions, ret |-> FALSE]
                   ELSE SetStateResult(sessions, u, "idle", now)
          IN  /\ sessions' = r.store
              /\ last' = Call("handle_report_callbacks", u,
                              IF aborted THEN None ELSE "idle", r.ret)
    /\ UNCHANGED <<now, calls, retired, sm, db, ex, llm, voice_sessions>>

----------------------------------------------------------------------------
(* Input pipelines (text_handlers.py, voice_handlers.py, photo_handlers.py) *)

\* the user whose inputs the pipelines handle
PipeUser == "u1"

\* the text of the n-th event: every input event brings a text of its own
TextOf(n) == "t" \o ToString(n)

\* a session message: the prefix the handler puts before the text ("" when
\* the text is stored as it came) and the text
Msg(prefix, text) == [prefix |-> prefix, text |-> text]

\* the prefix process_text_with_llm writes for the input kind
PrefixOf(handler) ==
    CASE handler = "voice" -> "[VOICE -> TEXT]"
      [] handler = "photo" -> "[PHOTO -> TEXT]"
      [] OTHER -> "[TEXT]"

\* what process_text can return for an input: two different extractions, a
\* request for clarification, and nothing found
PipeResponses ==
    {[orders |-> <<Order1>>, requires_correction |-> FALSE,
      clarification_question |-> None],
     [orders |-> <<Order2, Order1>>, requires_correction |-> FALSE,
      clarification_question |-> None],
     [orders |-> << >>, requires_correction |-> TRUE,
      clarification_question |-> "question"],
     [orders |-> << >>, requires_correction |-> FALSE,
      clarification_question |-> None]}

\* a handler call suspended at an await: the handler, its user, the text of
\* its input, where it will go on, and the session_id it holds
Pipeline(handler, user, text, pc, session_id) ==
    [handler |-> handler, user |-> user, text |-> text, pc |-> pc,
     session_id |-> session_id]

\* the record of a pipeline that reached its reply: what was passed to
\* process_text, what the reply shows, and what set_extracted_orders said
Processed(p, history, response, shown, stored) ==
    Call("process_text", p.user,
         [handler |-> p.handler, text |-> p.text, history |-> history],
         [shown |-> shown, orders |-> response.orders, stored |-> stored])

\* handle_text_message up to its first await: get_or_create_session and
\* add_message of the text on the shared store
TextReceived(u) ==
    \E new_id \in SessionIds :
        LET text == TextOf(calls + 1)
            r == GetOrCreateResult(sessions, u, now, now, new_id)
            a == AddMessageResult(r.store, u, Msg("", text), now)
        IN  /\ calls < MaxInputs
            /\ calls' = calls + 1
            /\ sessions' = a.store
            /\ inflight' = inflight \cup {Pipeline("text", u, text, "llm", r.ret)}
            /\ last' = Call("handle_text_message", u, text, r.ret)
            /\ UNCHANGED <<now, retired, sm, db, ex, llm, voice_sessions>>

\* the rest of handle_text_message: the history is read, process_text is
\* called, and the reply is chosen on requires_correction alone; orders that
\* were extracted are given to set_extracted_orders before the confirmation
\* prompt is sent
TextProcessed(p) ==
    /\ p \in inflight
    /\ p.handler = "text"
    /\ p.pc = "llm"
    /\ inflight' = inflight \ {p}
    /\ \E response \in PipeResponses :
          LET session_history == get_session_history(sessions, p.user)
          IN  IF response.requires_correction
              THEN /\ sessions' = sessions
                   /\ last' = Processed(p, session_history, response,
                                        "clarification", FALSE)
              ELSE IF response.orders # << >>
              THEN LET s == SetExtractedOrdersResult(sessions, p.user,
                                                     response.orders, now)
                   IN  /\ sessions' = s.store
                       /\ last' = Processed(p, session_history, response,
                                            "confirmation", s.ret)
              ELSE /\ sessions' = sessions
                   /\ last' = Processed(p, session_history, response,
                                        "no_data", FALSE)
    /\ UNCHANGED <<now, calls, retired, sm, db, ex, llm, voice_sessions>>

\* handle_voice_message up to its first await: get_or_create_session on the
\* SessionManager the module built for itself
VoiceReceived(u) ==
    \E new_id \in SessionIds :
        LET text == TextOf(calls + 1)
            r == GetOrCreateResult(voice_sessions, u, now, now, new_id)
        IN  /\ calls < MaxInputs
            /\ calls' = calls + 1
            /\ voice_sessions' = r.store
            /\ inflight' = inflight \cup
                  {Pipeline("voice", u, text, "transcribe", r.ret)}
            /\ last' = Call("handle_voice_message", u, text, r.ret)
            /\ UNCHANGED <<sessions, now, retired, sm, db, ex, llm>>

\* handle_voice_message after the transcription: add_message is called with
\* the session_id where the user_id belongs, on the module's own store
VoiceTranscribed(p) ==
    /\ p \in inflight
    /\ p.handler = "voice"
    /\ p.pc = "transcribe"
    /\ LET a == AddMessageResult(voice_sessions, ToString(p.session_id),
                                 Msg("[VOICE -> TEXT]", p.text), now)
       IN  /\ voice_sessions' = a.store
           /\ last' = Call("voice_transcribed", p.user, p.text, a.ret)
    /\ inflight' = (inflight \ {p}) \cup {[p EXCEPT !.pc = "llm"]}
    /\ UNCHANGED <<sessions, now, calls, retired, sm, db, ex, llm>>

\* handle_photo_message up to its first await: get_or_create_session on the
\* shared store
PhotoReceived(u) ==
    \E new_id \in SessionIds :
        LET text == TextOf(calls + 1)
            r == GetOrCreateResult(sessions, u, now, now, new_id)
        IN  /\ calls < MaxInputs
            /\ calls' = calls + 1
            /\ sessions' = r.store
            /\ inflight' = inflight \cup
                  {Pipeline("photo", u, text, "recognize", r.ret)}
            /\ last' = Call("handle_photo_message", u, text, r.ret)
            /\ UNCHANGED <<now, retired, sm, db, ex, llm, voice_sessions>>

\* handle_photo_message after the text was read off the image: add_message
\* of the prefixed text on the shared store
PhotoRecognized(p) ==
    /\ p \in inflight
    /\ p.handler = "photo"
    /\ p.pc = "recognize"
    /\ LET a == AddMessageResult(sessions, p.user,
                                 Msg("[PHOTO -> TEXT]", p.text), now)
       IN  /\ sessions' = a.store
           /\ last' = Call("photo_recognized", p.user, p.text, a.ret)
    /\ inflight' = (inflight \ {p}) \cup {[p EXCEPT !.pc = "llm"]}
    /\ UNCHANGED <<now, calls, retired, sm, db, ex, llm, voice_sessions>>

\* a voice or photo handler that ends in its except branch (download,
\* conversion, transcription or recognition failed) or at an early return
MediaFailed(p) ==
    /\ p \in inflight
    /\ p.pc \in {"transcribe", "recognize"}
    /\ inflight' = inflight \ {p}
    /\ last' = Call("media_failed", p.user, p.text, FALSE)
    /\ UNCHANGED <<sessions, now, calls, retired, sm, db, ex, llm, voice_sessions>>

\* process_text_with_llm, called by the voice and photo handlers with the
\* message that shows the progress: the history is read from the shared
\* store, process_text is called, the prefixed text and the response (as
\* JSON, whose content the model leaves out) are added to the history, and the reply asks for clarification only when the
\* response has a question; orders that were extracted are given to
\* set_extracted_orders before the confirmation prompt is sent
ProcessTextWithLLM(p) ==
    /\ p \in inflight
    /\ p.handler \in {"voice", "photo"}
    /\ p.pc = "llm"
    /\ inflight' = inflight \ {p}
    /\ \E response \in PipeResponses :
          LET session_history == get_session_history(sessions, p.user)
              a1 == AddMessageResult(sessions, p.user,
                                     Msg(PrefixOf(p.handler), p.text), now)
              a2 == AddMessageResult(a1.store, p.user, Msg("[LLM]", "response"), now)
          IN  IF response.requires_correction
                 /\ response.clarification_question \notin {None, ""}
              THEN /\ sessions' = a2.store
                   /\ last' = Processed(p, session_history, response,
                                        "clarification", FALSE)
              ELSE IF response.orders # << >>
              THEN LET s == SetExtractedOrdersResult(a2.store, p.user,
                                                     response.orders, now)
                   IN  /\ sessions' = s.store
                       /\ last' = Processed(p, session_history, response,
                                            "confirmation", s.ret)
              ELSE /\ sessions' = a2.store
                   /\ last' = Processed(p, session_history, response,
                                        "no_data", FALSE)
    /\ UNCHANGED <<now, calls, retired, sm, db, ex, llm, voice_sessions>>

\* handle_stop_processing and handle_confirm_cancel: clear_session
HandleStopProcessing(u) ==
    Apply("handle_stop_processing", u, None, ClearSessionResult(sessions, u))

----------------------------------------------------------------------------
(* StateMachine *)

\* a row that leads back to the state it leaves
T_Looping(from_state, to_state, condition, action) ==
    [from_state |-> from_state, to_state |-> from_state,
     condition |-> condition, action |-> action]

T(from_state, to_state, condition, action) ==
    [from_state |-> from_state, to_state |-> to_state,
     condition |-> condition, action |-> action]

\* StateMachine._setup_transitions: the rows in the order they are added; a
\* condition is named by the context flag its lambda reads
Transitions ==
    << T("idle", "processing", "has_input_data", None),
       T("idle", "reports_menu", "requested_reports", None),
       T("processing", "clarification", "requires_clarification", None),
       T("processing", "confirmation", "data_extracted", None),
       T("processing", "cancellation", "user_cancelled", None),
       T("processing", "idle", "processing_failed", None),
       T("clarification", "processing", "clarification_provided", None),
       T("clarification", "cancellation", "user_cancelled", None),
       T("confirmation", "idle", "user_confirmed", "_save_confirmed_data"),
       T("confirmation", "idle", "user_rejected", "_clear_session_data"),
       T("confirmation", "cancellation", "user_cancelled", None),
       T("cancellation", "idle", "cancellation_confirmed", "_clear_session_data"),
       T("cancellation", "processing", "return_to_previous", None),
       T("cancellation", "clarification", "return_to_previous", None),
       T("cancellation", "confirmation", "return_to_previous", None),
       T("reports_menu", "report_processing", "report_selected", None),
       T("reports_menu", "idle", "exit_reports", None),
       T("report_processing", "reports_menu", "report_completed", None),
       T("report_processing", "idle", "exit_reports", None) >>

\* the context keys the conditions read with ctx.get(key, False)
FlagNames == {Transitions[i].condition : i \in 1..Len(Transitions)}

\* a context: the set of flags that are true in it, and its previous_state
Contexts ==
    {[flags |-> F, previous_state |-> p] :
        F \in {S \in SUBSET FlagNames : Cardinality(S) <= MaxFlags},
        p \in BotState \cup {None}}

\* the back-out condition testing previous_state against the state left
\* instead of the state returned to
Condition_PreviousIsFrom(tr, context) ==
    IF tr.condition = "return_to_previous"
    THEN "return_to_previous" \in context.flags
         /\ context.previous_state = tr.from_state
    ELSE tr.condition \in context.flags

\* StateTransition.can_transition: the row's condition evaluated in context
Condition(tr, context) ==
    IF tr.condition = "return_to_previous"
    THEN "return_to_previous" \in context.flags
         /\ context.previous_state = tr.to_state
    ELSE tr.condition \in context.flags

\* the rows of every state, whatever the state asked for
TransitionsFrom_Any(from_state) ==
    SelectSeq(Transitions, LAMBDA tr : tr.from_state \in BotState)

\* self.transitions[from_state]
TransitionsFrom(from_state) ==
    SelectSeq(Transitions, LAMBDA tr : tr.from_state = from_state)

\* can_transition that allows a pair with no row
can_transition_DefaultTrue(from_state, to_state, context) ==
    LET rows == TransitionsFrom(from_state)
        hits == {i \in 1..Len(rows) : rows[i].to_state = to_state}
    IN  IF hits = {}
        THEN TRUE
        ELSE Condition(rows[CHOOSE i \in hits : \A j \in hits : i <= j], context)

\* StateMachine.can_transition: the condition of the first row to to_state
can_transition(from_state, to_state, context) ==
    LET rows == TransitionsFrom(from_state)
        hits == {i \in 1..Len(rows) : rows[i].to_state = to_state}
    IN  IF hits = {}
        THEN FALSE
        ELSE Condition(rows[CHOOSE i \in hits : \A j \in hits : i <= j], context)

\* StateMachine.get_available_transitions: the targets of the rows of
\* from_state whose condition holds, in table order
get_available_transitions(from_state, context) ==
    LET rows == TransitionsFrom(from_state)
        open == SelectSeq(rows, LAMBDA tr : Condition(tr, context))
    IN  [i \in 1..Len(open) |-> open[i].to_state]

\* one call of can_transition on the inputs drawn at the start
CanTransitionCall ==
    /\ sm.pc = "call"
    /\ sm' = [sm EXCEPT !.pc = "done",
                        !.result = can_transition(sm.from, sm.to, sm.ctx)]
    /\ UNCHANGED <<sessions, now, last, calls, retired, db, ex, llm, inflight, voice_sessions>>

\* the contexts a step along the table is taken with: at most one flag true,
\* and any previous_state
WalkContexts ==
    {[flags |-> F, previous_state |-> p] :
        F \in {{}} \cup {{f} : f \in FlagNames},
        p \in BotState \cup {None}}

\* one step along the table: from the state reached (sm.to), a target and a
\* context for which can_transition answers True
WalkStep ==
    /\ sm.pc = "walk"
    /\ \E t \in BotState, c \in WalkContexts :
          /\ can_transition(sm.to, t, c)
          /\ sm' = [pc |-> "walk", from |-> sm.to, to |-> t, ctx |-> c,
                    result |-> TRUE]
    /\ UNCHANGED <<sessions, now, last, calls, retired, db, ex, llm, inflight, voice_sessions>>

\* one call of SessionManager.can_transition_to for user u1 on the store and
\* the target drawn at the start
CanTransitionToCall ==
    /\ sm.pc = "ask"
    /\ sm' = [sm EXCEPT !.pc = "answered",
                        !.from = get_state(sessions, "u1"),
                        !.result = can_transition_to(sessions, "u1", sm.to)]
    /\ UNCHANGED <<sessions, now, last, calls, retired, db, ex, llm, inflight,
                   voice_sessions>>

NoQuery ==
    [pc |-> "none", from |-> None, to |-> None,
     ctx |-> [flags |-> {}, previous_state |-> None], result |-> FALSE]

----------------------------------------------------------------------------
(* DataService (app/services/data_service.py) *)

\* the database with no row in it
NoDb == [inspections |-> << >>, dialogues |-> << >>]

\* what a call of save_inspections can meet: success, the user missing from
\* the users table, an exception before the commit, an exception after the
\* commit (in db.refresh), or an exception that leaves the method
SaveOutcomes == {"ok", "no_user", "error", "error_after_commit", "raises"}

\* the Inspection rows save_inspections adds: an order without status is skipped
InspectionRows(user_id, session_id, orders) ==
    LET kept == SelectSeq(orders, LAMBDA o : o.status # None)
    IN  [i \in 1..Len(kept) |->
            [user_id    |-> user_id,
             session_id |-> session_id,
             order_id   |-> kept[i].order_id,
             status     |-> kept[i].status,
             comment    |-> kept[i].comment]]

\* DataService.save_inspections(user_id, session_id, orders)
save_inspections(database, user_id, session_id, orders, outcome) ==
    LET rows == InspectionRows(user_id, session_id, orders)
        committed == [database EXCEPT !.inspections = @ \o rows]
    IN  CASE outcome = "ok" ->
                [db |-> committed, ret |-> rows, raised |-> FALSE]
          [] outcome = "error_after_commit" ->
                [db |-> committed, ret |-> << >>, raised |-> FALSE]
          [] outcome = "raises" ->
                [db |-> database, ret |-> << >>, raised |-> TRUE]
          [] OTHER ->
                [db |-> database, ret |-> << >>, raised |-> FALSE]

\* DataService.update_dialogue_status(session_id, status)
update_dialogue_status(database, session_id, status) ==
    IF session_id \in DOMAIN database.dialogues
    THEN [database EXCEPT !.dialogues[session_id].status = status]
    ELSE database

\* DataService.link_dialogues_to_inspections: the session's dialogues point
\* at the first of the inspections just created
link_dialogues_to_inspections(database, session_id, inspection_id) ==
    IF session_id \in DOMAIN database.dialogues
    THEN [database EXCEPT !.dialogues[session_id].inspection_id = inspection_id]
    ELSE database

\* DataService.delete_session_data(session_id): only pending dialogues go
delete_session_data(database, session_id) ==
    IF /\ session_id \in DOMAIN database.dialogues
       /\ database.dialogues[session_id].status = "pending"
    THEN [database EXCEPT !.dialogues = DictDel(@, session_id)]
    ELSE database

----------------------------------------------------------------------------
(* The transition actions and execute_transition (state_machine.py) *)

\* what a transition action leaves behind: the session store, the database,
\* its return value and the arguments of the save_inspections calls it made
ActionResult(store, database, ret, saves) ==
    [store |-> store, db |-> database, ret |-> ret, saves |-> saves]

\* _save_confirmed_data that hands save_inspections only the orders with a status
_save_confirmed_data_Filtered(store, database, context, outcome) ==
    LET user_id == context.user_id
        orders == get_extracted_orders(store, user_id)
        session_info == get_session_info(store, user_id)
    IN  IF ~(context.data_service /\ context.session_manager /\ user_id # None)
        THEN ActionResult(store, database, FALSE, << >>)
        ELSE IF orders = << >> \/ session_info = {}
        THEN ActionResult(store, database, FALSE, << >>)
        ELSE LET session_id == (CHOOSE info \in session_info : TRUE).session_id
                 filtered == SelectSeq(orders, LAMBDA o : o.status # None)
                 s == save_inspections(database, user_id, session_id, filtered, outcome)
                 call == << [user_id |-> user_id, session_id |-> session_id,
                             orders |-> filtered] >>
             IN  IF s.raised
                 THEN ActionResult(store, database, FALSE, call)
                 ELSE IF s.ret # << >>
                 THEN ActionResult(store,
                          link_dialogues_to_inspections(
                              update_dialogue_status(s.db, session_id, "confirmed"),
                              session_id, Len(database.inspections) + 1),
                          TRUE, call)
                 ELSE ActionResult(store, s.db, FALSE, call)

\* StateMachine._save_confirmed_data(context)
_save_confirmed_data(store, database, context, outcome) ==
    LET user_id == context.user_id
        orders == get_extracted_orders(store, user_id)
        session_info == get_session_info(store, user_id)
    IN  IF ~(context.data_service /\ context.session_manager /\ user_id # None)
        THEN ActionResult(store, database, FALSE, << >>)
        ELSE IF orders = << >> \/ session_info = {}
        THEN ActionResult(store, database, FALSE, << >>)
        ELSE LET session_id == (CHOOSE info \in session_info : TRUE).session_id
                 s == save_inspections(database, user_id, session_id, orders, outcome)
                 call == << [user_id |-> user_id, session_id |-> session_id,
                             orders |-> orders] >>
             IN  IF s.raised
                 THEN ActionResult(store, database, FALSE, call)
                 ELSE IF s.ret # << >>
                 THEN ActionResult(store,
                          link_dialogues_to_inspections(
                              update_dialogue_status(s.db, session_id, "confirmed"),
                              session_id, Len(database.inspections) + 1),
                          TRUE, call)
                 ELSE ActionResult(store, s.db, FALSE, call)

\* StateMachine._clear_session_data(context)
_clear_session_data(store, database, context) ==
    LET user_id == context.user_id
        session_info == get_session_info(store, user_id)
    IN  IF ~(context.session_manager /\ user_id # None)
        THEN ActionResult(store, database, FALSE, << >>)
        ELSE ActionResult(
                 ClearSessionResult(store, user_id).store,
                 IF session_info # {} /\ context.data_service
                 THEN delete_session_data(database,
                          (CHOOSE info \in session_info : TRUE).session_id)
                 ELSE database,
                 TRUE, << >>)

\* execute_action that reports success whatever the action returned
execute_action_AlwaysTrue(tr, store, database, context, outcome) ==
    CASE tr.action = "_save_confirmed_data" ->
            [_save_confirmed_data(store, database, context, outcome)
                EXCEPT !.ret = TRUE]
      [] tr.action = "_clear_session_data" ->
            [_clear_session_data(store, database, context) EXCEPT !.ret = TRUE]
      [] OTHER -> ActionResult(store, database, TRUE, << >>)

\* StateTransition.execute_action: the row's action run on the context; a
\* row without action succeeds
execute_action(tr, store, database, context, outcome) ==
    CASE tr.action = "_save_confirmed_data" ->
            _save_confirmed_data(store, database, context, outcome)
      [] tr.action = "_clear_session_data" ->
            _clear_session_data(store, database, context)
      [] OTHER -> ActionResult(store, database, TRUE, << >>)

\* what execute_transition leaves behind when it runs no action
Refused(store, database) ==
    [store |-> store, db |-> database, ret |-> FALSE,
     actions |-> << >>, saves |-> << >>]

\* execute_transition that runs the first row to to_state without testing
\* any condition
execute_transition_NoGuard(store, database, from_state, to_state, context, outcome) ==
    LET rows == TransitionsFrom(from_state)
        hits == {i \in 1..Len(rows) : rows[i].to_state = to_state}
    IN  IF hits = {}
        THEN Refused(store, database)
        ELSE LET tr == rows[CHOOSE i \in hits : \A j \in hits : i <= j]
                 a == execute_action(tr, store, database, context, outcome)
             IN  [store |-> a.store, db |-> a.db, ret |-> a.ret,
                  actions |-> IF tr.action = None THEN << >> ELSE <<tr.action>>,
                  saves |-> a.saves]

\* StateMachine.execute_transition(from_state, to_state, context): refused
\* unless can_transition; then the action of the first row to to_state whose
\* condition holds is run and its result returned
execute_transition(store, database, from_state, to_state, context, outcome) ==
    LET rows == TransitionsFrom(from_state)
        hits == {i \in 1..Len(rows) :
                    rows[i].to_state = to_state /\ Condition(rows[i], context)}
    IN  IF ~can_transition(from_state, to_state, context)
        THEN Refused(store, database)
        ELSE IF hits = {}
        THEN Refused(store, database)
        ELSE LET tr == rows[CHOOSE i \in hits : \A j \in hits : i <= j]
                 a == execute_action(tr, store, database, context, outcome)
             IN  [store |-> a.store, db |-> a.db, ret |-> a.ret,
                  actions |-> IF tr.action = None THEN << >> ELSE <<tr.action>>,
                  saves |-> a.saves]

\* cap on the number of times the same transition is executed in a row
MaxExec == 2

\* a session a user has reached the confirmation step with
ETSession(session_id, user_id, orders) ==
    [NewSession(session_id, user_id, isoformat(0)) EXCEPT
        !.current_state = "confirmation",
        !.previous_state = "processing",
        !.messages = <<"m1">>,
        !.extracted_orders = orders]

\* the session stores execute_transition is run on
ETStores ==
    LET one == {<< >>} \cup {("u1" :> ETSession(1, "u1", o)) : o \in OrderLists}
        two == {<< >>, ("u2" :> ETSession(2, "u2", <<Order2, Order1>>))}
    IN  {a @@ b : a \in one, b \in two}

\* the database the handlers have left: one pending dialogue group per
\* session, no inspection yet (inspection_id 0 is NULL)
ETDb(store) ==
    [inspections |-> << >>,
     dialogues   |-> [session_id \in {store[u].session_id : u \in DOMAIN store} |->
                        [status |-> "pending", inspection_id |-> 0]]]

\* the flags the contexts handed to execute_transition are built from
ETFlagNames == {"user_confirmed", "user_rejected", "cancellation_confirmed",
                "return_to_previous"}

\* a context handed to execute_transition: flags, previous_state and whether
\* 'data_service', 'session_manager' and 'user_id' are in it
ETContexts ==
    {[flags |-> F, previous_state |-> p, data_service |-> d,
      session_manager |-> m, user_id |-> u] :
        F \in {S \in SUBSET ETFlagNames : Cardinality(S) <= MaxFlags},
        p \in {None, "processing"},
        d \in BOOLEAN, m \in BOOLEAN, u \in {"u1", None}}

NoExec ==
    [pc |-> "none", from |-> None, to |-> None,
     ctx |-> [flags |-> {}, previous_state |-> None, data_service |-> FALSE,
              session_manager |-> FALSE, user_id |-> None],
     results |-> << >>, actions |-> << >>, saves |-> << >>, outcome |-> None,
     before |-> [sessions |-> << >>, db |-> NoDb],
     first |-> [sessions |-> << >>, db |-> NoDb]]

\* one call of execute_transition on the inputs drawn at the start; the
\* outcome of save_inspections is recorded only when it was called
ExecuteTransition ==
    /\ ex.pc = "call"
    /\ Len(ex.results) < MaxExec
    /\ \E outcome \in SaveOutcomes :
         LET r == execute_transition(sessions, db, ex.from, ex.to, ex.ctx, outcome)
         IN  /\ sessions' = r.store
             /\ db' = r.db
             /\ ex' = [ex EXCEPT
                         !.results = Append(@, r.ret),
                         !.actions = r.actions,
                         !.saves = r.saves,
                         !.outcome = IF r.saves = << >> THEN None ELSE outcome,
                         !.before = [sessions |-> sessions, db |-> db],
                         !.first = IF ex.results = << >>
                                   THEN [sessions |-> r.store, db |-> r.db]
                                   ELSE @]
    /\ UNCHANGED <<now, last, calls, retired, sm, llm, inflight, voice_sessions>>

\* the result record of a process_text call that has not been made
NoLLM == [pc |-> "none"]

----------------------------------------------------------------------------
(* The cancellation round trip: set_state and the back-out transition *)

\* a session in processing, as the handlers leave it while a report is
\* being worked on
RTSession(user_id, previous_state, messages, orders, pending_data) ==
    [NewSession(1, user_id, isoformat(0)) EXCEPT
        !.current_state = "processing",
        !.previous_state = previous_state,
        !.messages = messages,
        !.extracted_orders = orders,
        !.pending_data = pending_data]

\* the session stores the round trip starts from
RTStores ==
    {(u :> RTSession(u, p, m, o, d)) :
        u \in Users, p \in {"idle", "clarification", "cancellation"},
        m \in {<< >>, <<"m1">>}, o \in OrderLists,
        d \in {None} \cup PendingInputs}

\* the context of the back-out: return_to_previous, with the previous_state
\* that set_state recorded in the user's session
BackOutContext(store, user_id) ==
    [flags |-> {"return_to_previous"},
     previous_state |-> store[user_id].previous_state,
     data_service |-> TRUE, session_manager |-> TRUE, user_id |-> user_id]

\* the user asks to cancel: set_state(user_id, cancellation)
RTCancel ==
    /\ ex.pc = "start"
    /\ \E u \in DOMAIN sessions, d \in 0..1 :
         /\ now + d <= MaxTime
         /\ now' = now + d
         /\ sessions' = SetStateResult(sessions, u, "cancellation", now + d).store
         /\ ex' = [ex EXCEPT !.pc = "cancelled",
                             !.ctx.user_id = u,
                             !.before = [sessions |-> sessions, db |-> db]]
    /\ UNCHANGED <<db, last, calls, retired, sm, llm, inflight, voice_sessions>>

\* the user backs out: the transition cancellation -> processing is executed
\* and, when it is allowed, set_state(user_id, processing) follows
RTBackOut ==
    /\ ex.pc = "cancelled"
    /\ \E d \in 0..1, outcome \in SaveOutcomes :
         LET u == ex.ctx.user_id
             context == BackOutContext(sessions, u)
             r == execute_transition(sessions, db, "cancellation", "processing",
                                     context, outcome)
         IN  /\ now + d <= MaxTime
             /\ now' = now + d
             /\ db' = r.db
             /\ sessions' = IF r.ret
                            THEN SetStateResult(r.store, u, "processing", now + d).store
                            ELSE r.store
             /\ ex' = [ex EXCEPT !.pc = "back",
                                 !.from = "cancellation",
                                 !.to = "processing",
                                 !.ctx = context,
                                 !.results = <<r.ret>>,
                                 !.actions = r.actions,
                                 !.saves = r.saves]
    /\ UNCHANGED <<last, calls, retired, sm, llm, inflight, voice_sessions>>

----------------------------------------------------------------------------
(* The text backends (app/clients) *)

Backends == {"openrouter", "lmstudio", "ollama"}

\* how the request to the backend ends: an exception of the HTTP client, a
\* reply without choices / message, a reply whose content is empty, or a
\* reply with a completion text
CallOutcomes == {"network_error", "no_message", "empty_content", "completion"}

\* the values of StatusEnum and the member each one decodes to
StatusEnum ==
    [godno |-> "approved", v_dorabotku |-> "rework", v_brak |-> "reject"]

\* status strings a completion can carry (Cyrillic transliterated): null,
\* values of StatusEnum, synonyms normalize_status knows, one of them in
\* capitals between blanks, and strings that are neither
RawStatus == {None, "godno", "v_dorabotku", "ok", "gotovo", "vse_v_poryadke",
              " OK ", "unknown", " Unknown "}

\* status.lower().strip() on the strings of RawStatus
lower_strip(status) ==
    CASE status = " OK " -> "ok"
      [] status = " Unknown " -> "unknown"
      [] OTHER -> status

\* the keys of status_mapping that map to "годно"
ApprovedSynonyms ==
    {"godno", "gotov", "gotovo", "ok_cyr", "ok", "norm", "vse_horosho",
     "prinyato", "odobreno", "vse_v_poryadke"}

\* the keys of status_mapping that map to "в доработку"
ReworkSynonyms ==
    {"v_dorabotku", "dorabotka", "dorabotat", "peredelat", "ispravit",
     "remach", "nuzhna_dorabotka"}

\* the keys of status_mapping that map to "в брак"
RejectSynonyms ==
    {"v_brak", "brak", "negoden", "na_spisanie", "lom", "vse_v_brak", "otklonen"}

\* normalize_status that looks the status up as it is written
normalize_status_AsWritten(status) ==
    IF status = None THEN status
    ELSE CASE status \in ApprovedSynonyms -> "godno"
           [] status \in ReworkSynonyms -> "v_dorabotku"
           [] status \in RejectSynonyms -> "v_brak"
           [] OTHER -> status

\* normalize_status: the status, lowered and stripped, is looked up in
\* status_mapping; a status that is not a key is returned as it was given
normalize_status(status) ==
    IF status = None THEN status
    ELSE LET status_lower == lower_strip(status)
         IN  CASE status_lower \in ApprovedSynonyms -> "godno"
               [] status_lower \in ReworkSynonyms -> "v_dorabotku"
               [] status_lower \in RejectSynonyms -> "v_brak"
               [] OTHER -> status

\* the status_map of the Ollama fallback: values mapped to member names
ollama_status_map(status) ==
    IF status \in DOMAIN StatusEnum THEN StatusEnum[status] ELSE status

\* an order object of a completion
RawOrder(order_id, status, comment) ==
    [order_id |-> order_id, status |-> status, comment |-> comment]

\* a list of n copies of one order, as a looping model produces
Repeated(n) == [i \in 1..n |-> RawOrder("10409", "godno", None)]

\* a list of n orders with n different order_ids
Distinct(n) == [i \in 1..n |-> RawOrder(ToString(10400 + i), "godno", None)]

\* _validate_llm_response: more orders than this is rejected
MaxOrdersInReply == 20
\* _validate_llm_response: more than this many orders, all with one
\* order_id, is rejected
LoopingThreshold == 5

\* the values under 'orders' in the completions: no order, one order with
\* each status, two orders, an order without order_id, a well-formed order
\* followed by one without order_id, one order_id repeated (as often as
\* _validate_llm_response allows, once more, and more than 20 times), and
\* more than 20 different orders
RawOrderLists ==
    {<< >>}
    \cup {<<RawOrder("10409", s, "c")>> : s \in RawStatus}
    \cup {<<RawOrder("10494", None, None), RawOrder("10409", "v_dorabotku", "c")>>}
    \cup {<<[status |-> "godno", comment |-> None]>>}
    \cup {<<RawOrder("10494", "godno", None), [status |-> "godno", comment |-> None]>>}
    \cup {Repeated(LoopingThreshold), Repeated(LoopingThreshold + 1),
          Repeated(MaxOrdersInReply + 1), Distinct(MaxOrdersInReply + 1)}

\* the keys of LLMResponse
ResponseKeys == {"orders", "requires_correction", "clarification_question"}

\* a completion that holds a JSON object: the keys present and their values
\* (requires_correction as JSON true / false / a non-boolean,
\* clarification_question as null / "" / a text / a non-string), whether the
\* text is longer than 3000 characters, and whether the strict decoder can
\* find the object in the text (it cannot when other text surrounds it)
ObjectCompletions ==
    {[json |-> "object", keys |-> K, orders |-> o, requires_correction |-> rc,
      clarification_question |-> cq, too_long |-> l, strict_readable |-> b] :
        K \in SUBSET ResponseKeys, o \in RawOrderLists,
        rc \in {"true", "false", "bad"}, cq \in {None, "", "question", "bad"},
        l \in BOOLEAN, b \in BOOLEAN}

\* a completion without a JSON object: no braces at all, or braces around
\* text that json.loads rejects
TextCompletions ==
    {[json |-> j, keys |-> {}, orders |-> << >>, requires_correction |-> "false",
      clarification_question |-> None, too_long |-> l, strict_readable |-> FALSE] :
        j \in {"none", "malformed"}, l \in BOOLEAN}

Completions == ObjectCompletions \cup TextCompletions

\* OrderData(**order): order_id is required, status is null or a value of
\* StatusEnum
ValidOrder(order) ==
    /\ "order_id" \in DOMAIN order
    /\ order.status = None \/ order.status \in DOMAIN StatusEnum

OrderData(order) ==
    [order_id |-> order.order_id,
     status   |-> IF order.status = None THEN None ELSE StatusEnum[order.status],
     comment  |-> order.comment]

\* the orders with normalize_status applied to every status that is not null
NormalizeOrders(orders) ==
    [i \in 1..Len(orders) |->
        IF orders[i].status # None
        THEN [orders[i] EXCEPT !.status = normalize_status(@)]
        ELSE orders[i]]

\* the orders with the Ollama status_map applied to every status
OllamaMapOrders(orders) ==
    [i \in 1..Len(orders) |->
        [orders[i] EXCEPT !.status = ollama_status_map(@)]]

\* the value under a key of the completion's object, or a default
ValueOf(c, key, default) ==
    IF key \notin c.keys THEN default
    ELSE CASE key = "orders" -> c.orders
           [] key = "requires_correction" -> c.requires_correction
           [] OTHER -> c.clarification_question

\* whether LLMResponse accepts the three values
ValidFields(orders, requires_correction, clarification_question) ==
    /\ \A i \in 1..Len(orders) : ValidOrder(orders[i])
    /\ requires_correction \in {"true", "false"}
    /\ clarification_question # "bad"

\* schemas.LLMResponse built from the three values
LLMResponse(orders, requires_correction, clarification_question) ==
    [orders                 |-> [i \in 1..Len(orders) |-> OrderData(orders[i])],
     requires_correction    |-> requires_correction = "true",
     clarification_question |-> clarification_question]

\* the response every client returns when it gives up, with its question
DefaultResponse(question) ==
    [orders |-> << >>, requires_correction |-> TRUE,
     clarification_question |-> question]

\* a call of process_text that returned, with the decoder its response came
\* from ("strict", "fallback", or "default" when the client gave up before
\* decoding), and one that raised
Returned(decoder, response) ==
    [raised |-> FALSE, response |-> response, decoder |-> decoder]
Raised ==
    [raised |-> TRUE, response |-> DefaultResponse(None), decoder |-> "none"]

\* PydanticOutputParser(LLMResponse).parse succeeds on the completion with
\* the given orders: orders and requires_correction are required,
\* clarification_question too when the installed pydantic requires Optional
\* fields without default
StrictParses(c, orders, readable, optional_required) ==
    /\ c.json = "object"
    /\ readable
    /\ {"orders", "requires_correction"} \subseteq c.keys
    /\ optional_required => "clarification_question" \in c.keys
    /\ ValidFields(orders, c.requires_correction,
                   ValueOf(c, "clarification_question", None))

\* _fallback_parse of the three clients, orders being the object's orders
\* (none when the key is missing) after what the client does to their
\* statuses: the values, with defaults for missing keys, go into LLMResponse;
\* anything that fails gives the default response
FallbackParse(c, orders) ==
    LET requires_correction == ValueOf(c, "requires_correction", "false")
        clarification_question == ValueOf(c, "clarification_question", None)
    IN  IF /\ c.json = "object"
           /\ ValidFields(orders, requires_correction, clarification_question)
        THEN LLMResponse(orders, requires_correction, clarification_question)
        ELSE DefaultResponse("unparsable")

\* _validate_llm_response that takes LoopingThreshold orders with one
\* order_id for a loop already
_validate_llm_response_AtThreshold(c) ==
    /\ ~c.too_long
    /\ c.json = "object"
    /\ c.keys = ResponseKeys
    /\ Len(c.orders) <= MaxOrdersInReply
    /\ ~ (/\ Len(c.orders) >= LoopingThreshold
          /\ \A i, j \in 1..Len(c.orders) :
                ("order_id" \in DOMAIN c.orders[i]) = ("order_id" \in DOMAIN c.orders[j])
                /\ ("order_id" \in DOMAIN c.orders[i]
                    => c.orders[i].order_id = c.orders[j].order_id))

\* OpenRouterLLMClient._validate_llm_response
_validate_llm_response(c) ==
    /\ ~c.too_long
    /\ c.json = "object"
    /\ c.keys = ResponseKeys
    /\ Len(c.orders) <= MaxOrdersInReply
    /\ ~ (/\ Len(c.orders) > LoopingThreshold
          /\ \A i, j \in 1..Len(c.orders) :
                ("order_id" \in DOMAIN c.orders[i]) = ("order_id" \in DOMAIN c.orders[j])
                /\ ("order_id" \in DOMAIN c.orders[i]
                    => c.orders[i].order_id = c.orders[j].order_id))

\* OpenRouterLLMClient.process_text: every exception gives the default
\* response; a completion that fails _validate_llm_response too; otherwise
\* the statuses are normalised and the text re-encoded (so the strict decoder
\* can read it), and what the strict decoder rejects goes to _fallback_parse
OpenRouter_process_text(attempt) ==
    LET c == attempt.completion
        normalized == NormalizeOrders(c.orders)
    IN  CASE attempt.call \in {"network_error", "no_message"} ->
                Returned("default", DefaultResponse("request_error"))
          [] attempt.call = "empty_content" ->
                Returned("default", DefaultResponse("processing_error"))
          [] OTHER ->
                IF ~_validate_llm_response(c)
                THEN Returned("default", DefaultResponse("processing_error"))
                ELSE IF StrictParses(c, normalized, TRUE, attempt.optional_required)
                THEN Returned("strict", LLMResponse(normalized, c.requires_correction,
                                          c.clarification_question))
                ELSE Returned("fallback", FallbackParse(c, normalized))

\* LMStudioLLMClient.process_text: a reply without choices or content raises
\* inside the try, and every exception gives the default response
LMStudio_process_text(attempt) ==
    LET c == attempt.completion
    IN  IF attempt.call # "completion"
        THEN Returned("default", DefaultResponse("request_error"))
        ELSE IF StrictParses(c, c.orders, c.strict_readable, attempt.optional_required)
        THEN Returned("strict", LLMResponse(c.orders, c.requires_correction,
                                  ValueOf(c, "clarification_question", None)))
        ELSE Returned("fallback", FallbackParse(c, ValueOf(c, "orders", << >>)))

\* process_text of the Ollama client with no handler for exceptions other
\* than those of requests
Ollama_process_text_NoCatchAll(attempt) ==
    LET c == attempt.completion
    IN  CASE attempt.call = "network_error" ->
                Returned("default", DefaultResponse("unavailable"))
          [] attempt.call \in {"no_message", "empty_content"} -> Raised
          [] OTHER ->
                IF StrictParses(c, c.orders, c.strict_readable, attempt.optional_required)
                THEN Returned("strict", LLMResponse(c.orders, c.requires_correction,
                                          ValueOf(c, "clarification_question", None)))
                ELSE Returned("fallback", FallbackParse(c,
                         OllamaMapOrders(ValueOf(c, "orders", << >>))))

\* OllamaLLMClient.process_text: an exception of requests gives the
\* "unavailable" response, any other the default response
Ollama_process_text(attempt) ==
    LET c == attempt.completion
    IN  CASE attempt.call = "network_error" ->
                Returned("default", DefaultResponse("unavailable"))
          [] attempt.call \in {"no_message", "empty_content"} ->
                Returned("default", DefaultResponse("request_error"))
          [] OTHER ->
                IF StrictParses(c, c.orders, c.strict_readable, attempt.optional_required)
                THEN Returned("strict", LLMResponse(c.orders, c.requires_correction,
                                          ValueOf(c, "clarification_question", None)))
                ELSE Returned("fallback", FallbackParse(c,
                         OllamaMapOrders(ValueOf(c, "orders", << >>))))

\* BaseLLMClient.process_text of the configured backend
process_text(backend, attempt) ==
    CASE backend = "openrouter" -> OpenRouter_process_text(attempt)
      [] backend = "lmstudio" -> LMStudio_process_text(attempt)
      [] OTHER -> Ollama_process_text(attempt)

\* what one request to a backend meets: how the call ends, the completion
\* it brings, and whether the installed pydantic requires Optional fields
Attempts ==
    {[call |-> "completion", completion |-> c, optional_required |-> r] :
        c \in Completions, r \in BOOLEAN}
    \cup
    {[call |-> k, completion |-> c, optional_required |-> FALSE] :
        k \in CallOutcomes \ {"completion"},
        c \in {x \in TextCompletions : x.json = "none" /\ ~x.too_long}}

\* one call of process_text on the backend and the attempt drawn at the start
ProcessText ==
    /\ llm.pc = "call"
    /\ LET r == process_text(llm.backend, llm.attempt)
       IN  llm' = [llm EXCEPT !.pc = "done", !.raised = r.raised,
                              !.decoder = r.decoder,
                              !.response = r.response]
    /\ UNCHANGED <<sessions, now, last, calls, retired, sm, db, ex, inflight, voice_sessions>>

----------------------------------------------------------------------------
(* Specifications *)

Init ==
    /\ sessions = << >>
    /\ now = 0
    /\ calls = 0
    /\ retired = {}
    /\ last = Call("init", None, None, None)
    /\ sm = NoQuery
    /\ db = NoDb
    /\ ex = NoExec
    /\ llm = NoLLM
    /\ inflight = {}
    /\ voice_sessions = << >>

\* the wall clock moves forward between two calls
Tick ==
    /\ \E d \in 1..MaxTime : now + d <= MaxTime /\ now' = now + d
    /\ last' = Call("tick", None, None, None)
    /\ UNCHANGED <<sessions, calls, retired, sm, db, ex, llm, inflight, voice_sessions>>

Next ==
    \/ \E u \in Users : GetOrCreateSession(u)
    \/ \E u \in Users : AddMessage(u)
    \/ \E u \in Users : SetExtractedOrders(u)
    \/ \E u \in Users : SetPendingData(u)
    \/ \E u \in Users : SetState(u)
    \/ \E u \in Users : ClearSession(u)
    \/ CleanupExpiredSessions
    \/ \E u \in Users : CmdStart(u)
    \/ \E u \in Users : HandleConfirmData(u)
    \/ \E u \in Users : GetSessionHistory(u)
    \/ \E u \in Users : GetExtractedOrders(u)
    \/ \E u \in Users : GetSessionInfo(u)
    \/ \E u \in Users : GetState(u)
    \/ \E u \in Users : GetPendingData(u)
    \/ Tick

\* the session store and the handlers, driven by any sequence of calls
Spec == Init /\ [][Next]_vars

\* the /start and report handlers of two users, interleaved
NextReports ==
    \/ \E u \in Users : CmdStart(u)
    \/ \E u \in Users : CmdReports(u)
    \/ \E u \in Users : ReportSelected(u)
    \/ \E u \in Users : ReportFinished(u)
    \/ \E u \in Users : HandleExitReports(u)

SpecReports == Init /\ [][NextReports]_vars

\* the input pipelines of one user, interleaved with each other and with
\* that user's stop, confirm and /start
NextPipe ==
    \/ TextReceived(PipeUser)
    \/ VoiceReceived(PipeUser)
    \/ PhotoReceived(PipeUser)
    \/ \E p \in inflight : TextProcessed(p)
    \/ \E p \in inflight : VoiceTranscribed(p)
    \/ \E p \in inflight : PhotoRecognized(p)
    \/ \E p \in inflight : MediaFailed(p)
    \/ \E p \in inflight : ProcessTextWithLLM(p)
    \/ HandleStopProcessing(PipeUser)
    \/ HandleConfirmData(PipeUser)
    \/ CmdStart(PipeUser)

SpecPipe == Init /\ [][NextPipe]_vars

\* the state machine queried once on inputs drawn from the bounded sets
InitSM ==
    /\ sessions = << >>
    /\ now = 0
    /\ calls = 0
    /\ retired = {}
    /\ last = Call("init", None, None, None)
    /\ sm \in {[pc |-> "call", from |-> f, to |-> t, ctx |-> c, result |-> FALSE] :
                 f \in BotState, t \in BotState, c \in Contexts}
    /\ db = NoDb
    /\ ex = NoExec
    /\ llm = NoLLM
    /\ inflight = {}
    /\ voice_sessions = << >>

NextSM == CanTransitionCall

SpecSM == InitSM /\ [][NextSM]_vars

\* a walk along the transition table, started in any state
InitWalk ==
    /\ sessions = << >>
    /\ now = 0
    /\ calls = 0
    /\ retired = {}
    /\ last = Call("init", None, None, None)
    /\ sm \in {[pc |-> "walk", from |-> None, to |-> s,
                ctx |-> [flags |-> {}, previous_state |-> None],
                result |-> FALSE] : s \in BotState}
    /\ db = NoDb
    /\ ex = NoExec
    /\ llm = NoLLM
    /\ inflight = {}
    /\ voice_sessions = << >>

NextWalk == WalkStep

SpecWalk == InitWalk /\ [][NextWalk]_vars

\* the stores can_transition_to is asked on: empty, or one session of one
\* user in any state
CTStores ==
    {<< >>} \cup
    {DictSet(<< >>, u, [NewSession(1, u, isoformat(0)) EXCEPT !.current_state = s]) :
        u \in Users, s \in BotState}

\* SessionManager.can_transition_to asked once
InitCT ==
    /\ sessions \in CTStores
    /\ now = 0
    /\ calls = 0
    /\ retired = {}
    /\ last = Call("init", None, None, None)
    /\ sm \in {[pc |-> "ask", from |-> None, to |-> t,
                ctx |-> [flags |-> {}, previous_state |-> None],
                result |-> FALSE] : t \in BotState}
    /\ db = NoDb
    /\ ex = NoExec
    /\ llm = NoLLM
    /\ inflight = {}
    /\ voice_sessions = << >>

NextCT == CanTransitionToCall

SpecCT == InitCT /\ [][NextCT]_vars

\* the stores the two expiry tests are compared on: one session of u1, in
\* any state, last active at any clock value
ExpiryStores ==
    {DictSet(<< >>, "u1",
             [NewSession(1, "u1", isoformat(0))
                 EXCEPT !.current_state = s, !.last_activity = isoformat(a)]) :
        s \in BotState, a \in 0..MaxTime}

\* a session last active at or before the clock value now, and then either
\* the sweep or get_or_create_session for its user, once
InitExpiry ==
    /\ sessions \in ExpiryStores
    /\ now \in 0..MaxTime
    /\ fromisoformat(sessions["u1"].last_activity) <= now
    /\ calls = 0
    /\ retired = {}
    /\ last = Call("init", None, None, None)
    /\ sm = NoQuery
    /\ db = NoDb
    /\ ex = NoExec
    /\ llm = NoLLM
    /\ inflight = {}
    /\ voice_sessions = << >>

NextExpiry ==
    /\ calls = 0
    /\ \/ CleanupExpiredSessions
       \/ \E new_id \in SessionIds :
             LET r == GetOrCreateResult(sessions, "u1", now, now, new_id)
             IN  /\ sessions' = r.store
                 /\ calls' = calls + 1
                 /\ last' = Call("get_or_create_session", "u1", new_id, r.ret)
                 /\ retired' = retired \cup
                       (IF IsLive(sessions["u1"], now) THEN {}
                        ELSE {sessions["u1"].session_id})
                 /\ UNCHANGED <<now, sm, db, ex, llm, inflight, voice_sessions>>

SpecExpiry == InitExpiry /\ [][NextExpiry]_vars

\* execute_transition run up to MaxExec times on a store, a database and
\* inputs drawn from the bounded sets
InitET ==
    /\ sessions \in ETStores
    /\ db = ETDb(sessions)
    /\ now = 0
    /\ calls = 0
    /\ retired = {}
    /\ last = Call("init", None, None, None)
    /\ sm = NoQuery
    /\ llm = NoLLM
    /\ inflight = {}
    /\ voice_sessions = << >>
    /\ ex \in {[NoExec EXCEPT !.pc = "call", !.from = f, !.to = t, !.ctx = c] :
                 f \in BotState, t \in BotState, c \in ETContexts}

NextET == ExecuteTransition

SpecET == InitET /\ [][NextET]_vars

\* the cancellation round trip made once on a session drawn from RTStores
InitRT ==
    /\ sessions \in RTStores
    /\ db = ETDb(sessions)
    /\ now \in 0..1
    /\ calls = 0
    /\ retired = {}
    /\ last = Call("init", None, None, None)
    /\ sm = NoQuery
    /\ llm = NoLLM
    /\ inflight = {}
    /\ voice_sessions = << >>
    /\ ex = [NoExec EXCEPT !.pc = "start"]

NextRT == RTCancel \/ RTBackOut

SpecRT == InitRT /\ [][NextRT]_vars

\* process_text called once on a backend and an attempt drawn from the
\* bounded sets
InitLLM ==
    /\ sessions = << >>
    /\ now = 0
    /\ calls = 0
    /\ retired = {}
    /\ last = Call("init", None, None, None)
    /\ sm = NoQuery
    /\ db = NoDb
    /\ ex = NoExec
    /\ inflight = {}
    /\ voice_sessions = << >>
    /\ llm \in {[pc |-> "call", backend |-> b, attempt |-> a, raised |-> FALSE,
                 decoder |-> "none",
                 response |-> DefaultResponse(None)] :
                  b \in Backends, a \in Attempts}

NextLLM == ProcessText

SpecLLM == InitLLM /\ [][NextLLM]_vars

----------------------------------------------------------------------------
(* Properties *)

\* age of user u's session at clock value t
Age(store, u, t) == t - fromisoformat(store[u].last_activity)

Mutators == {"add_message", "set_extracted_orders", "set_pending_data", "set_state"}

Getters == {"get_session_history", "get_extracted_orders", "get_session_info",
            "get_state", "get_pending_data"}

\* C1: get_or_create_session(u) on a session whose last_activity is less than
\* the timeout ago (at the moment the code tests it) returns the session's
\* session_id, sets last_activity to the time read at the start of the call
\* and leaves every other field of the session as it was.
C1_LiveSessionRefreshed ==
    [][\A u \in Users :
         (/\ last'.op = "get_or_create_session"
          /\ last'.user = u
          /\ u \in DOMAIN sessions
          /\ Age(sessions, u, now') < timeout)
         => /\ u \in DOMAIN sessions'
            /\ last'.ret = sessions[u].session_id
            /\ sessions'[u].last_activity = isoformat(now)
            /\ sessions'[u].session_id = sessions[u].session_id
            /\ sessions'[u].current_state = sessions[u].current_state
            /\ sessions'[u].previous_state = sessions[u].previous_state
            /\ sessions'[u].messages = sessions[u].messages
            /\ sessions'[u].extracted_orders = sessions[u].extracted_orders
            /\ sessions'[u].pending_data = sessions[u].pending_data
            /\ sessions'[u].created_at = sessions[u].created_at]_vars

\* a live session that carries data has just been refreshed at a later time
C1_Witness ==
    /\ last.op = "get_or_create_session"
    /\ last.user \in DOMAIN sessions
    /\ sessions[last.user].session_id = last.ret
    /\ sessions[last.user].current_state # "idle"
    /\ sessions[last.user].last_activity = isoformat(now)
    /\ sessions[last.user].created_at # sessions[last.user].last_activity

\* C2: get_or_create_session on a session inactive for more than the timeout
\* returns a session_id different from the expired one, and no call ever
\* returns the session_id of a session that was removed from the store.
C2_IdsNeverReused ==
    [][/\ \A u \in Users :
            (/\ last'.op = "get_or_create_session"
             /\ last'.user = u
             /\ u \in DOMAIN sessions
             /\ Age(sessions, u, now') > timeout)
            => last'.ret # sessions[u].session_id
       /\ last'.op \in {"get_or_create_session", "cmd_start"}
            => last'.ret \notin retired']_vars

\* C3: a session freshly created by get_or_create_session (no session before,
\* an expired one before, or /start) is idle, has no previous_state, no
\* messages, no extracted orders, no pending data, and created_at equal to
\* last_activity.
C3_FreshSessionIsBlank ==
    [][\A u \in Users :
         (/\ last'.user = u
          /\ \/ last'.op = "cmd_start"
             \/ /\ last'.op = "get_or_create_session"
                /\ u \in DOMAIN sessions => Age(sessions, u, now') >= timeout)
         => /\ u \in DOMAIN sessions'
            /\ sessions'[u].session_id = last'.ret
            /\ sessions'[u].user_id = u
            /\ sessions'[u].current_state = "idle"
            /\ sessions'[u].previous_state = None
            /\ sessions'[u].messages = <<>>
            /\ sessions'[u].extracted_orders = <<>>
            /\ sessions'[u].pending_data = None
            /\ sessions'[u].created_at = sessions'[u].last_activity
            /\ sessions'[u].created_at = isoformat(now)]_vars

\* a fresh session has replaced one that was discarded earlier
C3_Witness ==
    /\ last.op \in {"get_or_create_session", "cmd_start"}
    /\ last.user \in DOMAIN sessions
    /\ retired # {}
    /\ sessions[last.user].created_at = sessions[last.user].last_activity
    /\ fromisoformat(sessions[last.user].created_at) >= timeout

\* C4: a mutator called for a user without a session returns False and
\* leaves the session map as it was.
C4_MutatorsNeedSession ==
    [][\A u \in Users :
         (/\ last'.op \in Mutators
          /\ last'.user = u
          /\ u \notin DOMAIN sessions)
         => /\ last'.ret = FALSE
            /\ sessions' = sessions]_vars

\* a mutator has failed for one user while another user has a session
C4_Witness ==
    /\ last.op \in Mutators
    /\ last.ret = FALSE
    /\ last.user \notin DOMAIN sessions
    /\ DOMAIN sessions # {}

\* C5: whatever is called, a user's last_activity never decreases (the clock
\* of the model never goes back).
C5_LastActivityMonotonic ==
    [][\A u \in Users :
         (u \in DOMAIN sessions /\ u \in DOMAIN sessions')
         => fromisoformat(sessions'[u].last_activity)
              >= fromisoformat(sessions[u].last_activity)]_vars

\* a mutator has moved last_activity past the creation time
C5_Witness ==
    /\ last.op \in Mutators
    /\ last.ret = TRUE
    /\ last.user \in DOMAIN sessions
    /\ fromisoformat(sessions[last.user].last_activity)
         > fromisoformat(sessions[last.user].created_at)

\* what a call returns for a user who has no session
AbsentResult(call) ==
    CASE call.op \in Mutators -> call.ret = FALSE
      [] call.op \in {"get_session_history", "get_extracted_orders"} -> call.ret = <<>>
      [] call.op \in {"get_state", "get_pending_data"} -> call.ret = None
      [] call.op = "get_session_info" -> call.ret = {}
      [] call.op = "handle_confirm_data" -> call.ret.reply = "no_data"
      [] OTHER -> TRUE

\* C6: every access to a session that has been inactive for more than the
\* timeout (getters, mutators, the confirm handler) answers as if the user
\* had no session, and does not update the expired session.
C6_ExpiredSessionIsAbsent ==
    [][\A u \in Users :
         (/\ last'.op \in Mutators \cup Getters \cup {"handle_confirm_data"}
          /\ last'.user = u
          /\ u \in DOMAIN sessions
          /\ Age(sessions, u, now) > timeout)
         => /\ AbsentResult(last')
            /\ u \in DOMAIN sessions' => sessions'[u] = sessions[u]]_vars

\* C7: clear_session(u) removes u's session whatever its state or age,
\* returns True exactly when there was one, leaves the getters of u with
\* their no-session answers, and leaves every other user's session alone.
C7_ClearSession ==
    [][\A u \in Users :
         (last'.op = "clear_session" /\ last'.user = u)
         => /\ last'.ret = (u \in DOMAIN sessions)
            /\ u \notin DOMAIN sessions'
            /\ get_state(sessions', u) = None
            /\ get_session_info(sessions', u) = {}
            /\ get_session_history(sessions', u) = <<>>
            /\ get_extracted_orders(sessions', u) = <<>>
            /\ \A v \in Users \ {u} :
                 /\ (v \in DOMAIN sessions') = (v \in DOMAIN sessions)
                 /\ v \in DOMAIN sessions => sessions'[v] = sessions[v]]_vars

\* a session has been cleared while another user's session stays
C7_Witness ==
    /\ last.op = "clear_session"
    /\ last.ret = TRUE
    /\ last.user \notin DOMAIN sessions
    /\ DOMAIN sessions # {}

\* C8: cleanup_expired_sessions removes every session older than the
\* timeout, keeps every session younger than the timeout as it is, creates
\* none, and returns the number of sessions it removed.
C8_CleanupExpired ==
    [][last'.op = "cleanup_expired_sessions"
         => /\ DOMAIN sessions' \subseteq DOMAIN sessions
            /\ \A u \in DOMAIN sessions :
                 /\ Age(sessions, u, now) > timeout => u \notin DOMAIN sessions'
                 /\ Age(sessions, u, now) < timeout
                      => u \in DOMAIN sessions' /\ sessions'[u] = sessions[u]
            /\ last'.ret = Cardinality(DOMAIN sessions \ DOMAIN sessions')]_vars

\* the sweep has removed one session and kept a younger one that had been
\* created more than the timeout after the start
C8_Witness ==
    /\ last.op = "cleanup_expired_sessions"
    /\ last.ret = 1
    /\ \E u \in DOMAIN sessions : Age(sessions, u, now) < timeout

\* C9: after a successful set_state(u, s) previous_state is the old
\* current_state and current_state is s, also when s is the old state.
C9_SetStateRecordsPrevious ==
    [][\A u \in Users :
         (last'.op = "set_state" /\ last'.user = u /\ last'.ret = TRUE)
         => /\ u \in DOMAIN sessions
            /\ u \in DOMAIN sessions'
            /\ sessions'[u].previous_state = sessions[u].current_state
            /\ sessions'[u].current_state = last'.arg]_vars

\* set_state has been called with the state the session was already in
C9_Witness ==
    /\ last.op = "set_state"
    /\ last.ret = TRUE
    /\ last.user \in DOMAIN sessions
    /\ last.arg # "idle"
    /\ sessions[last.user].current_state = last.arg
    /\ sessions[last.user].previous_state = last.arg

\* C10: can_transition is true only if some row of the table goes from
\* from_state to to_state with a condition that is true in the context; for
\* a pair without a row it is false in every context.
C10_CanTransitionOnlyIfEdge ==
    (sm.pc = "done" /\ sm.result = TRUE)
    => \E i \in 1..Len(Transitions) :
         /\ Transitions[i].from_state = sm.from
         /\ Transitions[i].to_state = sm.to
         /\ Condition(Transitions[i], sm.ctx)

\* the pair with two rows has been allowed, and so has a back-out row
C10_Witness ==
    /\ sm.pc = "done"
    /\ sm.result = TRUE
    /\ \/ sm.from = "confirmation" /\ sm.to = "idle"
       \/ sm.from = "cancellation" /\ sm.to = "processing"

\* C11: for every row of the transition table and every context in which
\* that row's condition is true, can_transition(from_state, to_state, context)
\* is true, whatever other flags the context holds.
C11_EveryTrueRowAllowed ==
    sm.pc = "done"
    => \A i \in 1..Len(Transitions) :
         (/\ Transitions[i].from_state = sm.from
          /\ Transitions[i].to_state = sm.to
          /\ Condition(Transitions[i], sm.ctx))
         => sm.result = TRUE

\* the transition confirmation -> idle has just been executed with
\* user_rejected true and user_confirmed not
RejectExecuted ==
    /\ ex.pc = "call"
    /\ Len(ex.results) = 1
    /\ ex.from = "confirmation"
    /\ ex.to = "idle"
    /\ "user_rejected" \in ex.ctx.flags
    /\ "user_confirmed" \notin ex.ctx.flags

\* C12: executing confirmation -> idle with user_rejected true (and
\* user_confirmed not), for a context that names the session manager and the
\* user, succeeds, invokes _clear_session_data and never
\* _save_confirmed_data, and leaves the user without a session.
C12_RejectDiscards ==
    (RejectExecuted /\ ex.ctx.session_manager /\ ex.ctx.user_id # None)
    => /\ ex.results[1] = TRUE
       /\ ex.actions = <<"_clear_session_data">>
       /\ ex.ctx.user_id \notin DOMAIN sessions

\* the transition confirmation -> idle has just been executed with
\* user_confirmed true
ConfirmExecuted ==
    /\ ex.pc = "call"
    /\ Len(ex.results) >= 1
    /\ ex.from = "confirmation"
    /\ ex.to = "idle"
    /\ "user_confirmed" \in ex.ctx.flags

\* the context names the data service, the session manager and a user who
\* had a session with at least one extracted order when the call was made
HadOrdersToSave ==
    /\ ex.ctx.data_service
    /\ ex.ctx.session_manager
    /\ ex.ctx.user_id \in DOMAIN ex.before.sessions
    /\ ex.before.sessions[ex.ctx.user_id].extracted_orders # << >>

\* the one save_inspections call the persist action makes for the session
SaveOfSession ==
    << [user_id    |-> ex.ctx.user_id,
        session_id |-> ex.before.sessions[ex.ctx.user_id].session_id,
        orders     |-> ex.before.sessions[ex.ctx.user_id].extracted_orders] >>

\* C13 as stated: execute_transition(confirmation, idle, ctx) with
\* user_confirmed true invokes the persist action exactly once, calls
\* save_inspections once with the session's extracted orders, and invokes no
\* other transition action.
C13_PersistOnceAlwaysSaves ==
    ConfirmExecuted
    => /\ ex.actions = <<"_save_confirmed_data">>
       /\ Len(ex.saves) = 1
       /\ ex.ctx.user_id \in DOMAIN ex.before.sessions
       /\ ex.saves = SaveOfSession

\* C13 (amended): execute_transition(confirmation, idle, ctx) with
\* user_confirmed true invokes _save_confirmed_data exactly once and no other
\* transition action; save_inspections is called at most once, and it is
\* called (once, with the session's id and extracted orders) exactly when the
\* context carries data_service, session_manager and the id of a user whose
\* session holds at least one extracted order.
C13_PersistOnce ==
    ConfirmExecuted
    => /\ ex.actions = <<"_save_confirmed_data">>
       /\ Len(ex.saves) <= 1
       /\ HadOrdersToSave => ex.saves = SaveOfSession
       /\ ~HadOrdersToSave => ex.saves = << >>

\* the confirm transition has been executed, with user_rejected true as
\* well, and save_inspections has been called for a session with two orders
C13_Witness ==
    /\ ConfirmExecuted
    /\ "user_rejected" \in ex.ctx.flags
    /\ HadOrdersToSave
    /\ Len(ex.saves) = 1
    /\ Len(ex.saves[1].orders) = 2

\* the result of the most recent execute_transition call
LastResult == ex.results[Len(ex.results)]

\* C14: after execute_transition(confirmation, idle, ctx) with user_confirmed
\* true has returned True, every extracted order of the session has a row in
\* the inspections table and the user has no session in the store.
C14_ConfirmPersistsThenClears ==
    (ConfirmExecuted /\ LastResult = TRUE)
    => /\ \A i \in 1..Len(ex.before.sessions[ex.ctx.user_id].extracted_orders) :
            \E j \in 1..Len(db.inspections) :
                /\ db.inspections[j].session_id =
                       ex.before.sessions[ex.ctx.user_id].session_id
                /\ db.inspections[j].order_id =
                       ex.before.sessions[ex.ctx.user_id].extracted_orders[i].order_id
       /\ ex.ctx.user_id \notin DOMAIN sessions

\* the most recent call reached save_inspections, which returned no
\* inspection or raised
SaveFailed ==
    /\ ex.saves # << >>
    /\ LET s == save_inspections(ex.before.db, ex.saves[1].user_id,
                    ex.saves[1].session_id, ex.saves[1].orders, ex.outcome)
       IN  s.raised \/ s.ret = << >>

\* C15: if save_inspections returns nothing or raises during the confirm
\* transition, execute_transition returns False and the session store, the
\* user's extracted_orders and messages included, is exactly as it was
\* before the call.
C15_FailedSaveKeepsSession ==
    (ConfirmExecuted /\ SaveFailed)
    => /\ LastResult = FALSE
       /\ sessions = ex.before.sessions
       /\ ex.ctx.user_id \in DOMAIN sessions
       /\ sessions[ex.ctx.user_id].extracted_orders = ex.saves[1].orders

\* the confirm transition has failed on an exception of save_inspections
\* and the user's session still holds its two orders and its message
C15_Witness ==
    /\ ConfirmExecuted
    /\ SaveFailed
    /\ ex.outcome = "raises"
    /\ LastResult = FALSE
    /\ Len(sessions[ex.ctx.user_id].extracted_orders) = 2
    /\ sessions[ex.ctx.user_id].messages = <<"m1">>

\* C16: executing the same confirm or reject/cancel transition twice in a
\* row for the same user, both times with success, leaves the database and
\* the session store as they were after the first execution (no order is
\* persisted twice).
C16_ActionsIdempotent ==
    (/\ ex.pc = "call"
     /\ ex.results = <<TRUE, TRUE>>
     /\ ex.actions # << >>)
    => /\ sessions = ex.first.sessions
       /\ db = ex.first.db

\* no row of the table goes from ex.from to ex.to with a condition that is
\* true in the context: there is no edge, or every guard is false
IllegalTransition ==
    ~ \E i \in 1..Len(Transitions) :
        /\ Transitions[i].from_state = ex.from
        /\ Transitions[i].to_state = ex.to
        /\ Condition(Transitions[i], ex.ctx)

\* C17: execute_transition on an illegal transition (no edge, or guard
\* false) returns False, invokes neither _save_confirmed_data nor
\* _clear_session_data, calls save_inspections not at all, and leaves every
\* session and the database unchanged.
C17_IllegalTransitionRefused ==
    (ex.pc = "call" /\ ex.results # << >> /\ IllegalTransition)
    => /\ LastResult = FALSE
       /\ ex.actions = << >>
       /\ ex.saves = << >>
       /\ sessions = ex.before.sessions
       /\ db = ex.before.db

\* an illegal transition has been attempted on the rows that carry the two
\* actions (both guards false) with a complete context, while two users
\* have sessions
C17_Witness ==
    /\ ex.pc = "call"
    /\ ex.results # << >>
    /\ IllegalTransition
    /\ Cardinality(DOMAIN sessions) = 2
    /\ ex.ctx.session_manager
    /\ ex.ctx.data_service
    /\ ex.ctx.user_id # None
    /\ ex.from = "confirmation"
    /\ ex.to = "idle"
    /\ ex.ctx.flags = {"cancellation_confirmed"}

\* C18: for a session in processing, set_state to cancellation followed by
\* the back-out transition to processing (context return_to_previous with
\* the previous_state set_state recorded, processing) is allowed and ends
\* with current_state = processing and with extracted_orders, messages and
\* pending_data as they were before the round trip.
C18_CancellationRoundTrip ==
    ex.pc = "back"
    => LET u == ex.ctx.user_id
       IN  /\ ex.ctx.previous_state = "processing"
           /\ ex.results = <<TRUE>>
           /\ u \in DOMAIN sessions
           /\ sessions[u].current_state = "processing"
           /\ sessions[u].extracted_orders = ex.before.sessions[u].extracted_orders
           /\ sessions[u].messages = ex.before.sessions[u].messages
           /\ sessions[u].pending_data = ex.before.sessions[u].pending_data
           /\ sessions[u].session_id = ex.before.sessions[u].session_id

\* the round trip has been made by a user whose session holds two orders, a
\* message and pending data
C18_Witness ==
    /\ ex.pc = "back"
    /\ ex.results = <<TRUE>>
    /\ ex.before.sessions[ex.ctx.user_id].current_state = "processing"
    /\ Len(sessions[ex.ctx.user_id].extracted_orders) = 2
    /\ sessions[ex.ctx.user_id].messages = <<"m1">>
    /\ sessions[ex.ctx.user_id].pending_data = "d1"

\* the clarification_question of the response is neither null nor empty
HasQuestion(response) ==
    /\ response.clarification_question # None
    /\ response.clarification_question # ""

C20_CorrectionHasQuestion ==
    (llm.pc = "done" /\ ~llm.raised /\ llm.response.requires_correction)
    => HasQuestion(llm.response)

\* the completion's object carries an order list that is one order_id
\* repeated more than LoopingThreshold times, or that has more than
\* MaxOrdersInReply records
LoopingCompletion(c) ==
    /\ c.json = "object"
    /\ "orders" \in c.keys
    /\ \/ Len(c.orders) > MaxOrdersInReply
       \/ /\ Len(c.orders) > LoopingThreshold
          /\ \A i \in 1..Len(c.orders) :
                /\ "order_id" \in DOMAIN c.orders[i]
                /\ c.orders[i].order_id = c.orders[1].order_id

\* C21: for every text backend, a completion whose order list is one
\* order_id repeated more than 5 times, or has more than 20 records, yields
\* the last-resort default (orders = [], requires_correction = true) and
\* never the duplicated list.
C21_LoopingListRejected ==
    (/\ llm.pc = "done"
     /\ llm.attempt.call = "completion"
     /\ LoopingCompletion(llm.attempt.completion))
    => /\ llm.response.orders = << >>
       /\ llm.response.requires_correction = TRUE

\* the status is a string that, lowered and stripped, is no key of
\* status_mapping
Unrecognized(status) ==
    /\ status # None
    /\ lower_strip(status) \notin ApprovedSynonyms \cup ReworkSynonyms \cup RejectSynonyms

\* C22: normalize_status maps every synonym of the approved group, in any
\* letter case and with surrounding blanks, to the approved value and returns
\* an unrecognized value unchanged; a completion that reaches the decoders
\* with an unrecognized status is not accepted by the strict decoder but
\* handed to the fallback extractor, and one the strict decoder accepts has
\* the approved member for every approved synonym.
C22_StatusNormalization ==
    (llm.pc = "done" /\ llm.attempt.call = "completion")
    => LET c == llm.attempt.completion
       IN  /\ \A i \in 1..Len(c.orders) :
                /\ lower_strip(c.orders[i].status) \in ApprovedSynonyms
                   => normalize_status(c.orders[i].status) = "godno"
                /\ Unrecognized(c.orders[i].status)
                   => normalize_status(c.orders[i].status) = c.orders[i].status
           /\ (/\ llm.backend = "openrouter" => _validate_llm_response(c)
               /\ c.json = "object"
               /\ "orders" \in c.keys
               /\ \E i \in 1..Len(c.orders) : Unrecognized(c.orders[i].status))
              => llm.decoder = "fallback"
           /\ (llm.backend = "openrouter" /\ llm.decoder = "strict")
              => \A i \in 1..Len(c.orders) :
                    lower_strip(c.orders[i].status) \in ApprovedSynonyms
                    => llm.response.orders[i].status = "approved"

\* the OpenRouter client has handed a completion with an unrecognized
\* status, written in capitals between blanks, to the fallback extractor
C22_Witness ==
    /\ llm.pc = "done"
    /\ llm.backend = "openrouter"
    /\ llm.decoder = "fallback"
    /\ _validate_llm_response(llm.attempt.completion)
    /\ Len(llm.attempt.completion.orders) = 1
    /\ llm.attempt.completion.orders[1].status = " Unknown "

\* the well-formed records of an order list, as OrderData
WellFormedOrders(orders) ==
    LET kept == SelectSeq(orders, ValidOrder)
    IN  [i \in 1..Len(kept) |-> OrderData(kept[i])]

\* C23: when strict decoding fails on a completion whose JSON decodes and
\* whose order list mixes well-formed and malformed records, the fallback of
\* the OpenRouter and LM Studio clients returns exactly the well-formed
\* records, not the empty last-resort default.
C23_FallbackKeepsWellFormed ==
    (/\ llm.pc = "done"
     /\ llm.backend \in {"openrouter", "lmstudio"}
     /\ llm.decoder = "fallback"
     /\ llm.attempt.completion.json = "object"
     /\ "orders" \in llm.attempt.completion.keys
     /\ \E i \in 1..Len(llm.attempt.completion.orders) :
            ValidOrder(llm.attempt.completion.orders[i])
     /\ \E i \in 1..Len(llm.attempt.completion.orders) :
            ~ValidOrder(llm.attempt.completion.orders[i]))
    => llm.response.orders = WellFormedOrders(llm.attempt.completion.orders)

\* the value of a StatusEnum member, as the JSON encoder writes it
StatusValue(member) == CHOOSE v \in DOMAIN StatusEnum : StatusEnum[v] = member

\* an LLMResponse written as the JSON object of its three fields, as a
\* completion; long says whether the text is longer than the 3000 characters
\* _validate_llm_response accepts
Serialize(r, long) ==
    [json |-> "object", keys |-> ResponseKeys,
     orders |-> [i \in 1..Len(r.orders) |->
                    RawOrder(r.orders[i].order_id,
                             IF r.orders[i].status = None THEN None
                             ELSE StatusValue(r.orders[i].status),
                             r.orders[i].comment)],
     requires_correction |-> IF r.requires_correction THEN "true" ELSE "false",
     clarification_question |-> r.clarification_question,
     too_long |-> long, strict_readable |-> TRUE]

\* the extraction results of the inputs
ExtractionResults ==
    {LLMResponse(o, rc, cq) :
        o \in {x \in RawOrderLists : \A i \in 1..Len(x) : ValidOrder(x[i])},
        rc \in {"true", "false"}, cq \in {None, "", "question"}}

\* the OpenRouter client was given the serialization of r and returned
RoundTripOf(r, long) ==
    /\ llm.pc = "done"
    /\ llm.backend = "openrouter"
    /\ llm.attempt.call = "completion"
    /\ llm.attempt.completion = Serialize(r, long)

\* r has no more orders than _validate_llm_response accepts, and not more
\* than LoopingThreshold orders that all carry one order_id
WithinLimits(r) ==
    /\ Len(r.orders) <= MaxOrdersInReply
    /\ ~ (/\ Len(r.orders) > LoopingThreshold
          /\ \A i, j \in 1..Len(r.orders) :
                r.orders[i].order_id = r.orders[j].order_id)

\* r holds a text of free length (a comment or a question), so that its
\* serialization can be longer than 3000 characters
CanBeLong(r) ==
    \/ r.clarification_question = "question"
    \/ \E i \in 1..Len(r.orders) : r.orders[i].comment # None

C25_OrdersReplacedWholesale ==
    (last.op = "set_extracted_orders" /\ last.ret = TRUE)
        => get_extracted_orders(sessions, last.user) = last.arg

\* a list of two orders was stored in a session on the third call, after
\* earlier calls that could have stored another list
C25_Witness ==
    /\ last.op = "set_extracted_orders"
    /\ last.ret = TRUE
    /\ calls = MaxCalls
    /\ last.arg = <<Order2, Order1>>
    /\ get_extracted_orders(sessions, last.user) = <<Order2, Order1>>

\* the step keeps the session of user u: u has a session before and after,
\* and the step is not one that discards it and opens another (/start, or
\* get_or_create_session on a session that timed out)
SessionKept(u) ==
    /\ u \in DOMAIN sessions
    /\ u \in DOMAIN sessions'
    /\ ~ (last'.user = u /\ last'.op = "cmd_start")
    /\ ~ (last'.user = u /\ last'.op = "get_or_create_session"
          /\ ~IsLive(sessions[u], now'))

\* the step is a successful add_message for user u
AddedMessage(u) ==
    last'.op = "add_message" /\ last'.user = u /\ last'.ret = TRUE

\* what a step does to the history of user u: a new session starts with an
\* empty history; a successful add_message puts its argument at the end; no
\* other step on a session that is kept changes the history
HistoryStep(u) ==
    /\ (u \notin DOMAIN sessions /\ u \in DOMAIN sessions')
          => get_session_history(sessions', u) = << >>
    /\ SessionKept(u)
          => get_session_history(sessions', u) =
                IF AddedMessage(u)
                THEN Append(get_session_history(sessions, u), last'.arg)
                ELSE get_session_history(sessions, u)

\* C26: while a session lives, get_session_history is exactly the arguments
\* of the successful add_message calls since the session was created, in call
\* order; only discarding the session removes or reorders an entry.
C26_HistoryAppendOnly == [][\A u \in Users : HistoryStep(u)]_vars

\* two different messages were added to one session, and the history holds
\* them in call order
C26_Witness ==
    /\ last.op = "add_message"
    /\ last.ret = TRUE
    /\ last.arg = "m1"
    /\ get_session_history(sessions, last.user) = <<"m2", "m1">>

\* the confirm handler found orders in the session of its user and cleared it
ConfirmCleared ==
    /\ last.op = "handle_confirm_data"
    /\ last.ret.reply = "confirmed"
    /\ last.user \notin DOMAIN sessions

\* C27: the confirm handler clears the session only after the session's
\* extracted orders were handed to the persistence collaborator with success:
\* every order it read is then an inspection of that user in the database.
C27_ConfirmSavesBeforeClearing ==
    ConfirmCleared
        => \A i \in 1..Len(last.ret.orders) :
              \E k \in 1..Len(db.inspections) :
                  /\ db.inspections[k].user_id = last.user
                  /\ db.inspections[k].order_id = last.ret.orders[i].order_id

\* the step leaves user b as it found them: without a session, or with the
\* same session, field by field
SessionUntouched(b) ==
    /\ (b \in DOMAIN sessions) = (b \in DOMAIN sessions')
    /\ b \in DOMAIN sessions => sessions'[b] = sessions[b]

\* C28: an operation invoked for user a (a store call, /start, confirm) never
\* changes the session of another user b, in any interleaving of the calls.
C28_CrossUserIsolation ==
    [][\A a, b \in Users : (a # b /\ last'.user = a) => SessionUntouched(b)]_vars

\* /start ran for u1 while u2 had a session with a message in it, and u2
\* still has it
C28_Witness ==
    /\ last.op = "cmd_start"
    /\ last.user = "u1"
    /\ "u2" \in DOMAIN sessions
    /\ sessions["u2"].messages # << >>

\* can_transition was asked for a back-out from cancellation
BackOutQuery ==
    /\ sm.pc = "done"
    /\ sm.from = "cancellation"
    /\ sm.to \in {"processing", "clarification", "confirmation"}

\* C29: from cancellation, a back-out to processing, clarification or
\* confirmation is allowed only when the context has return_to_previous true
\* and its previous_state is the state returned to; a back-out to any other
\* state than the recorded previous_state is refused.
C29_BackOutOnlyToPrevious ==
    BackOutQuery
        => /\ sm.result => ("return_to_previous" \in sm.ctx.flags
                            /\ sm.ctx.previous_state = sm.to)
           /\ sm.ctx.previous_state # sm.to => ~sm.result

\* a back-out to clarification was allowed, with another flag set as well
C29_Witness ==
    /\ BackOutQuery
    /\ sm.to = "clarification"
    /\ sm.result
    /\ sm.ctx.previous_state = "clarification"
    /\ "user_cancelled" \in sm.ctx.flags

\* the transition table has a row from state f to state t
IsEdge(f, t) ==
    \E i \in 1..Len(Transitions) :
        Transitions[i].from_state = f /\ Transitions[i].to_state = t

\* the step is a handler of user u whose set_state succeeded
SetStateSucceeded(u) ==
    /\ last'.user = u
    /\ last'.op \in {"cmd_reports", "handle_report_callbacks", "handle_exit_reports"}
    /\ last'.ret = TRUE

OpenEdges ==
    {e \in BotState \X BotState : \E c \in Contexts : can_transition(e[1], e[2], c)}

\* the table lets the machine go from s to t under some context
EdgeOpen(s, t) == <<s, t>> \in OpenEdges

\* the states reached from the set S in at most n steps along open edges
RECURSIVE ReachedIn(_, _)
ReachedIn(S, n) ==
    IF n = 0 THEN S
    ELSE ReachedIn(S \cup {t \in BotState : \E s \in S : EdgeOpen(s, t)}, n - 1)

\* C31: no state is terminal: the state the walk is in has an outgoing edge
\* that some context opens, and idle is reached from it by a finite path of
\* such edges.
C31_NoTerminalState ==
    sm.pc = "walk"
        => /\ \E t \in BotState : EdgeOpen(sm.to, t)
           /\ "idle" \in ReachedIn({sm.to}, Cardinality(BotState))

\* the walk went from report_processing back to the reports menu, the state
\* pair that can cycle without passing idle
C31_Witness ==
    /\ sm.pc = "walk"
    /\ sm.from = "report_processing"
    /\ sm.to = "reports_menu"
    /\ "idle" \in ReachedIn({"reports_menu"}, Cardinality(BotState))

\* the pipeline of the given input kind reached its reply and shows the
\* confirmation prompt
PromptShown(handler) ==
    /\ last.op = "process_text"
    /\ last.arg.handler = handler
    /\ last.ret.shown = "confirmation"

\* C32: all handlers work on one session store: the session the voice
\* handler creates for a user is the session of that user in the shared
\* store, and the orders extracted from a voice message are in the session
\* the confirm handler reads, so that they can be confirmed.
C32_VoiceUsesSharedStore ==
    /\ last.op = "handle_voice_message"
          => /\ last.user \in DOMAIN sessions
             /\ sessions[last.user].session_id = last.ret
    /\ PromptShown("voice")
          => get_extracted_orders(sessions, last.user) = last.ret.orders

\* the history holds the turn of the input with the given text
TurnIn(history, text) ==
    \E i \in 1..Len(history) :
        history[i].prefix # "[LLM]" /\ history[i].text = text

\* every entry of history a is in history b, at the same place
KeptIn(a, b) == Len(a) <= Len(b) /\ SubSeq(b, 1, Len(a)) = a

\* the step is the reply of an input pipeline, in a run where no session of
\* the shared store was discarded (no stop, cancel, confirm or /start hit a
\* session)
ReplyStep ==
    /\ last'.op = "process_text"
    /\ retired' = {}

\* C33: when input events of one user are processed concurrently, no update
\* of messages is lost and extracted_orders follow the last write: at the
\* reply of each pipeline the history still holds every earlier entry and
\* holds the text of this input, and the session's extracted_orders are the
\* orders of this pipeline if it shows them for confirmation, and are
\* unchanged otherwise.
C33_ConcurrentInputsKeepUpdates ==
    [][ReplyStep =>
          /\ KeptIn(get_session_history(sessions, last'.user),
                    get_session_history(sessions', last'.user))
          /\ TurnIn(get_session_history(sessions', last'.user), last'.arg.text)
          /\ get_extracted_orders(sessions', last'.user) =
                IF last'.ret.shown = "confirmation"
                THEN last'.ret.orders
                ELSE get_extracted_orders(sessions, last'.user)]_vars

\* how many entries of the history are the turn of the input with this text
TurnCount(history, text) ==
    Cardinality({i \in 1..Len(history) :
                    history[i].prefix # "[LLM]" /\ history[i].text = text})

\* C34: on every input path the history passed to process_text holds only
\* prior turns, not the text of the input being handled (which process_text
\* appends itself), and when the pipeline has replied the session's messages
\* hold the turn of that input exactly once.
C34_TurnSentAndRecordedOnce ==
    last.op = "process_text"
        => /\ TurnCount(last.arg.history, last.arg.text) = 0
           /\ TurnCount(get_session_history(sessions, last.user), last.arg.text) = 1

\* the Ollama client was given a completion that the strict decoder cannot
\* read (a reasoning preamble before the JSON) and whose JSON object is a
\* well-formed result: the three keys, valid orders, a boolean and a question
\* or null
PreambleCompletion ==
    /\ llm.pc = "done"
    /\ llm.backend = "ollama"
    /\ llm.attempt.call = "completion"
    /\ llm.attempt.completion.json = "object"
    /\ ~llm.attempt.completion.strict_readable
    /\ llm.attempt.completion.keys = ResponseKeys
    /\ ValidFields(llm.attempt.completion.orders,
                   llm.attempt.completion.requires_correction,
                   llm.attempt.completion.clarification_question)

\* C35: for the Ollama backend, when strict decoding fails on a reasoning
\* preamble followed by a well-formed JSON result, the fallback returns the
\* orders of that JSON with their statuses intact, not the last-resort
\* default.
C35_OllamaFallbackKeepsStatuses ==
    PreambleCompletion
        => /\ ~llm.raised
           /\ llm.response = LLMResponse(llm.attempt.completion.orders,
                                         llm.attempt.completion.requires_correction,
                                         llm.attempt.completion.clarification_question)

\* C36: can_transition_to accepts exactly the pairs (current_state, target)
\* for which the transition table of the StateMachine has a row, the
\* back-out rows from cancellation included.
C36_CanTransitionToMatchesTable ==
    (sm.pc = "answered" /\ sm.from # None)
        => (sm.result <=> IsEdge(sm.from, sm.to))

\* C37: get_available_transitions agrees with can_transition: for every
\* state, target and context, the target is in the list
\* get_available_transitions returns if and only if can_transition is true.
C37_AvailableAgreesWithCan ==
    sm.pc = "done"
        => LET available == get_available_transitions(sm.from, sm.ctx)
           IN  (\E i \in 1..Len(available) : available[i] = sm.to) <=> sm.result

\* C38: in any interleaving of a user's input pipeline with that user's stop,
\* cancel, confirm and /start, whenever the pipeline shows the confirmation
\* prompt for an extraction, the user's session exists and its
\* extracted_orders are exactly the orders shown.
C38_PromptMatchesSession ==
    (last.op = "process_text" /\ last.ret.shown = "confirmation")
        => /\ last.user \in DOMAIN sessions
           /\ get_extracted_orders(sessions, last.user) = last.ret.orders

\* cleanup_expired_sessions at clock value t removes the session of u
Swept(store, u, t) == u \notin DOMAIN CleanupExpiredResult(store, t).store

\* get_or_create_session at clock value t discards the session of u and
\* mints a new one: it returns the id it was given to mint (0 is the id of no
\* session of the store)
Minted(store, u, t) == GetOrCreateResult(store, u, t, t, 0).ret = 0

\* C39: the lazy expiry test and the sweep agree at every instant, the exact
\* timeout boundary included: the sweep at time t removes a session if and
\* only if get_or_create_session at t would discard it and mint a new one;
\* and neither verdict changes when the session is put in another state.
C39_LazyAndSweepAgree ==
    \A u \in DOMAIN sessions :
        /\ Swept(sessions, u, now) <=> Minted(sessions, u, now)
        /\ \A s \in BotState :
              LET other == [sessions EXCEPT ![u].current_state = s]
              IN  /\ Swept(other, u, now) <=> Swept(sessions, u, now)
                  /\ Minted(other, u, now) <=> Minted(sessions, u, now)

\* the sweep removed a session whose last activity was exactly the timeout
\* ago
C39_Witness ==
    /\ last.op = "cleanup_expired_sessions"
    /\ last.ret = 1
    /\ now = timeout
    /\ sessions = << >>
    /\ retired # {}

====
